---------------------------- MODULE Spec2Model ----------------------------
(***************************************************************************)
(* Model of the Yamaha receiver control session (class RXV in              *)
(* custom_components/ha_yamaha/rxv.py).                                    *)
(*                                                                         *)
(* A caller runs one coroutine of the session at a time.  A coroutine runs *)
(* without interruption from one await of an HTTP round trip to the next:  *)
(* one action of the model is the code between two awaits.  The request    *)
(* that a coroutine awaits is in flight (req) until the receiver action    *)
(* answers it (resp).                                                      *)
(*                                                                         *)
(* Python values: None is the string "None"; a text that the code slices,  *)
(* splits or compares character by character (menu path, line tag, line    *)
(* text) is a sequence of one-character strings.                           *)
(***************************************************************************)
EXTENDS Integers, Sequences, FiniteSets, TLC

VARIABLES
    coord,      \* the coordinator: the snapshot it has published, its poll cycles,
                \* and whether it has made its session (self._rxv)
    store,      \* the session's store: [entry_id, handle, saved]
    desc,       \* the receiver's descriptor documents
    devinfo,    \* RXV._device: the capability record, or NoDevice
    zone,       \* RXV._zone of the originating session
    ctrls,      \* the list last returned by zone_controllers()
    zresult,    \* outcome of the last synchronous zone operation
    rx,         \* the receiver: per zone, the settings the requests read and write
    op,         \* per caller: the coroutine it runs
    arg,        \* per caller: the argument of the coroutine
    pc,         \* per caller: the await the coroutine is suspended at
    loc,        \* per caller: the local variables of the coroutine
    req,        \* per caller: the request in flight, or NoReq
    resp,       \* per caller: the decoded response not yet consumed, or NoResp
    result,     \* per caller: return value or exception of the finished coroutine
    sent,       \* per caller: the requests the running coroutine has sent so far
    hist        \* per caller: what the receiver has been observed to do during the coroutine

vars ==
    <<coord, store, desc, devinfo, zone, ctrls, zresult, rx, op, arg, pc, loc, req, resp, result, sent, hist>>

-----------------------------------------------------------------------------
(* Constants of rxv.py *)

GetParam == "GetParam"
STRAIGHT == "Straight"
DIRECT == "Direct"
INPUT_NET_RADIO == "NET RADIO"
INPUT_SERVER == "SERVER"

None == "None"
NoDevice == [unset |-> TRUE]
NoReq == [cmd |-> "none"]
NoResp == [rc |-> "none"]

Tasks == {"t1", "t2"}
Caller == "t1"

-----------------------------------------------------------------------------
(* The capability record of a receiver with two zones that have a surround *)
(* Setup menu (only Main_Zone with a Direct toggle) and a third without.   *)

DefaultDevice ==
    [ zones |-> <<"Main_Zone", "Zone_2", "Zone_3">>,
      commands |-> << <<"SERVER", "List_Control", "Cursor">>,
                      <<"SERVER", "Play_Info">>,
                      <<"NET_RADIO", "List_Control", "Cursor">>,
                      <<"NET_RADIO", "Play_Info">>,
                      <<"Main_Zone", "Cursor_Control", "Cursor">>,
                      <<"Main_Zone", "Sound_Video", "Dialogue_Adjust", "Dialogue_Lvl">>,
                      <<"Tuner", "Play_Info">> >>,
      zone_surround_programs |->
          [z \in {"Main_Zone", "Zone_2"} |->
              IF z = "Main_Zone" THEN <<STRAIGHT, DIRECT, "Hall", "Jazz">>
                                 ELSE <<STRAIGHT, "Hall">>],
      source_play_methods |->
          [s \in {"SERVER", "NET_RADIO", "Main_Zone"} |->
              IF s = "Main_Zone" THEN <<"Play", "Pause", "Stop", "Skip Fwd", "Skip Rev">>
              ELSE IF s = "SERVER" THEN <<"Play", "Stop">>
              ELSE <<"Stop">>],
      source_cursor_actions |->
          [s \in {"SERVER", "Main_Zone", "USB"} |->
              IF s = "Main_Zone" THEN <<"Up", "Down", "Sel", "Return", "Menu">>
              ELSE <<"Up", "Down", "Sel", "Return">>],
      inputs_source |->
          [i \in {"SERVER", "NET RADIO", "TUNER", "HDMI1", "AV1", "USB"} |->
              CASE i = "SERVER" -> "SERVER"
                [] i = "NET RADIO" -> "NET_RADIO"
                [] i = "TUNER" -> "Tuner"
                [] i = "USB" -> "USB"
                [] OTHER -> None],
      scenes_number |->
          [s \in {"BD/DVD Movie Viewing", "TV Viewing"} |->
              IF s = "TV Viewing" THEN "Scene 2" ELSE "Scene 1"] ]

\* list membership (x in list)
InList(x, list) == \E i \in 1..Len(list) : list[i] = x

\* dict.get(key, default)
DictGet(dict, key, default) == IF key \in DOMAIN dict THEN dict[key] ELSE default

\* self._device.zone_surround_programs.get(self.zone, [])
ZonePrograms(z) == DictGet(devinfo.zone_surround_programs, z, <<>>)

-----------------------------------------------------------------------------
(* Requests.  top is the outermost tag of the payload: the zone for a zone *)
(* command (zone_cmd=True), the source name otherwise.                     *)

Request(cmd, top, path, val) == [cmd |-> cmd, top |-> top, path |-> path, val |-> val]

\* DirectMode.format(...) wrapped in the zone
DirectModeReq(cmd, z, val) == Request(cmd, z, "Sound_Video/Direct/Mode", val)

\* SurroundProgram.format(parameter=GetParam)
SurroundGetReq(z) == Request("GET", z, "Surround/Program_Sel/Current", GetParam)

\* SurroundProgram.format(parameter=<Straight>On</Straight> or <Sound_Program>..)
SurroundPutReq(z, surround_name) ==
    IF surround_name = STRAIGHT
    THEN Request("PUT", z, "Surround/Program_Sel/Current/Straight", "On")
    ELSE Request("PUT", z, "Surround/Program_Sel/Current/Sound_Program", surround_name)

\* Input.format(input_name=...)
InputReq(cmd, z, val) == Request(cmd, z, "Input/Input_Sel", val)

IsSurroundPut(r) ==
    /\ r.cmd = "PUT"
    /\ r.path \in {"Surround/Program_Sel/Current/Straight",
                   "Surround/Program_Sel/Current/Sound_Program"}

IsDirectPut(r, val) ==
    /\ r.cmd = "PUT"
    /\ r.path = "Sound_Video/Direct/Mode"
    /\ r.val = val

\* PlayControl.format(src_name=..., action=...), not wrapped in a zone
PlayControlReq(src_name, action) == Request("PUT", src_name, "Play_Control/Playback", action)

\* ListControlCursor / CursorControlCursor .format(src_name=..., action=...)
CursorReq(template, src_name, action) == Request("PUT", src_name, template, action)

\* Scene.format(parameter=scene_number)
SceneReq(z, scene_number) == Request("PUT", z, "Scene/Scene_Sel", scene_number)

-----------------------------------------------------------------------------
(* Outcomes of a coroutine *)

NoResult == [kind |-> "none", val |-> None]
Returned(v) == [kind |-> "return", val |-> v]
Raised(e) == [kind |-> "raise", val |-> e]

NoZoneResult == [op |-> None, who |-> 0, kind |-> "none", val |-> None, zone0 |-> None]

NoHist ==
    [ rx0 |-> <<>>, zone0 |-> None, polls |-> 0, selects |-> 0, everReady |-> FALSE,
      coop |-> TRUE, finalSel |-> FALSE, nreq |-> 0, failedAt |-> 0,
      saved0 |-> NoDevice ]

NoLoc == [none |-> TRUE]

\* the caller enters coroutine o with argument a: nothing sent yet
Enter(t, o, a) ==
    /\ pc[t] = "idle"
    /\ op' = [op EXCEPT ![t] = o]
    /\ arg' = [arg EXCEPT ![t] = a]
    /\ hist' = [hist EXCEPT ![t] =
                    [NoHist EXCEPT !.rx0 = rx, !.zone0 = zone, !.saved0 = store.saved]]

\* the coroutine sends request r and is suspended at label until it is answered
Await(t, label, r) ==
    /\ pc' = [pc EXCEPT ![t] = label]
    /\ req' = [req EXCEPT ![t] = r]
    /\ resp' = [resp EXCEPT ![t] = NoResp]
    /\ sent' = [sent EXCEPT ![t] = Append(@, r)]
    /\ UNCHANGED result

\* the coroutine ends with outcome res
End(t, res) ==
    /\ pc' = [pc EXCEPT ![t] = "done"]
    /\ result' = [result EXCEPT ![t] = res]
    /\ resp' = [resp EXCEPT ![t] = NoResp]
    /\ UNCHANGED <<req, sent>>

\* (mutant) the RC attribute is not looked at
RcOkAny(rc) == TRUE

\* the test of _async_request on the RC attribute of a response (None when
\* the attribute is missing)
RcOk(rc) == rc = "0"

\* the coroutine is suspended at label and _async_request has returned the
\* response to its request
Resumed(t, o, label) ==
    /\ op[t] = o
    /\ pc[t] = label
    /\ resp[t] # NoResp
    /\ RcOk(resp[t].rc)

-----------------------------------------------------------------------------
(* Pure helpers of the session *)

\* "if not src_name": None and the empty string are false
Falsy(s) == s \in {None, ""}

\* the characters of the input labels of the model
Chars(label) ==
    CASE label = "HDMI1" -> <<"H", "D", "M", "I", "1">>
      [] label = "HDMI2" -> <<"H", "D", "M", "I", "2">>
      [] label = "hdmi3" -> <<"h", "d", "m", "i", "3">>
      [] label = "Hdmi4" -> <<"H", "d", "m", "i", "4">>
      [] label = "HDM" -> <<"H", "D", "M">>
      [] label = "AV HDMI" -> <<"A", "V", " ", "H", "D", "M", "I">>
      [] label = "SERVER" -> <<"S", "E", "R", "V", "E", "R">>
      [] label = "NET RADIO" -> <<"N", "E", "T", " ", "R", "A", "D", "I", "O">>
      [] label = "TUNER" -> <<"T", "U", "N", "E", "R">>
      [] label = "AV1" -> <<"A", "V", "1">>
      [] label = "USB" -> <<"U", "S", "B">>
      [] label = "AUDIO1" -> <<"A", "U", "D", "I", "O", "1">>
      [] label = "AUDIO9" -> <<"A", "U", "D", "I", "O", "9">>

\* c.upper() for the letters of "hdmi"
UpperChar(c) ==
    CASE c = "h" -> "H" [] c = "d" -> "D" [] c = "m" -> "M" [] c = "i" -> "I" [] OTHER -> c

\* text.startswith(prefix)
StartsWith(text, prefix) ==
    /\ Len(text) >= Len(prefix)
    /\ SubSeq(text, 1, Len(prefix)) = prefix

\* (mutant) the label is compared as it is written
StartsWithHDMIExact(label) == StartsWith(Chars(label), <<"H", "D", "M", "I">>)

\* cur_input.upper().startswith('HDMI')
StartsWithHDMI(label) ==
    StartsWith([i \in 1..Len(Chars(label)) |-> UpperChar(Chars(label)[i])],
               <<"H", "D", "M", "I">>)

\* RXV._async_get_src_name with cur_input given: the pair (src_name, cur_input)
GetSrcName(z, cur_input) ==
    IF cur_input \notin DOMAIN devinfo.inputs_source THEN <<None, None>>
    ELSE IF StartsWithHDMI(cur_input) THEN <<z, cur_input>>
    ELSE <<devinfo.inputs_source[cur_input], cur_input>>

\* RXV.supports_method(source, *args): args is the list of the remaining parts
supports_method(source, args) ==
    \E i \in 1..Len(devinfo.commands) :
        LET parts == devinfo.commands[i] IN
        /\ parts[1] = source
        /\ SubSeq(parts, 2, Len(parts)) = args

\* dict.get(key, default) for a key that is a Python value of either type:
\* the str s is written <<s>>, the tuple (a, b) is written <<a, b>>, and a
\* dictionary with str keys holds no tuple key.
PyDictGet(dict, key, default) ==
    IF Len(key) = 1 /\ key[1] \in DOMAIN dict THEN dict[key[1]] ELSE default

\* RXV.supports_play_method(source, method)
supports_play_method(source, method) ==
    InList(method, PyDictGet(devinfo.source_play_methods, source, <<>>))

\* RXV.async_get_playback_support(input_source): src_name is bound to the
\* whole pair that _async_get_src_name returns
async_get_playback_support(z, input_source) ==
    LET src_name == GetSrcName(z, input_source) IN
    [ play |-> supports_play_method(src_name, "Play"),
      pause |-> supports_play_method(src_name, "Pause"),
      stop |-> supports_play_method(src_name, "Stop"),
      skip_f |-> supports_play_method(src_name, "Skip Fwd"),
      skip_r |-> supports_play_method(src_name, "Skip Rev") ]

\* (mutant) every source counts as supporting playback
async_is_playback_supported_always(z, input_source) == TRUE

\* RXV.async_is_playback_supported(input_source)
async_is_playback_supported(z, input_source) ==
    async_get_playback_support(z, input_source).play

\* RXV.async_get_supported_cursor_actions(src_name) with src_name given
async_get_supported_cursor_actions(src_name) ==
    IF Falsy(src_name) THEN {}
    ELSE LET cursor_actions == DictGet(devinfo.source_cursor_actions, src_name, None) IN
         IF cursor_actions = None THEN {}
         ELSE {cursor_actions[i] : i \in 1..Len(cursor_actions)}

\* the test of async_get_direct_mode that decides whether it asks the receiver
DirectAdvertised(z) == InList(DIRECT, ZonePrograms(z))

-----------------------------------------------------------------------------
(* The receiver.  Each zone keeps its input, Direct mode, Straight flag,    *)
(* sound program, scene, power, mute, volume (the text of Val) and dialogue *)
(* level (its text); the                                                    *)
(* entry "Sources" keeps the last command sent                              *)
(* to a source (playback, cursor); what a select does to the menu shows in  *)
(* the List_Info replies.  A Surround PUT has no effect while Direct mode   *)
(* is On (comment in async_set_surround_program).                           *)

RxZone(input, direct, straight, program) ==
    [ input |-> input, direct |-> direct, straight |-> straight, program |-> program,
      scene |-> "Scene 1", ctl |-> <<>>,
      power |-> "On", mute |-> "Off", volume |-> <<"-", "4", "0", "0">>,
      dialogue |-> <<"0">> ]

RxDefault == RxZone("HDMI1", FALSE, FALSE, "Hall")

OnOff(b) == IF b THEN "On" ELSE "Off"

\* the state of the addressed entry after a request
RxApply(r, s) ==
    IF r.cmd # "PUT" THEN s
    ELSE CASE r.path = "Sound_Video/Direct/Mode" -> [s EXCEPT !.direct = (r.val = "On")]
           [] r.path = "Surround/Program_Sel/Current/Straight" ->
                  IF s.direct THEN s ELSE [s EXCEPT !.straight = (r.val = "On")]
           [] r.path = "Surround/Program_Sel/Current/Sound_Program" ->
                  IF s.direct THEN s ELSE [s EXCEPT !.program = r.val, !.straight = FALSE]
           [] r.path = "Input/Input_Sel" -> [s EXCEPT !.input = r.val]
           [] r.path = "Scene/Scene_Sel" -> [s EXCEPT !.scene = r.val]
           [] r.path = "List_Control/Direct_Sel" -> s
           [] r.path = "Volume/Lvl" -> [s EXCEPT !.volume = r.val.val]
           [] r.path = "Power_Control/Power" -> [s EXCEPT !.power = r.val]
           [] r.path = "Volume/Mute" -> [s EXCEPT !.mute = r.val]
           [] r.path = "Sound_Video/Dialogue_Adjust/Dialogue_Lvl" ->
                  [s EXCEPT !.dialogue = r.val]
           [] OTHER -> [s EXCEPT !.ctl = <<r.top, r.path, r.val>>]

\* the decoded value of the response to a request
RxAnswer(r, s) ==
    IF r.cmd # "GET" THEN None
    ELSE CASE r.path = "Sound_Video/Direct/Mode" -> OnOff(s.direct)
           [] r.path = "Surround/Program_Sel/Current" ->
                  [straight |-> OnOff(s.straight), program |-> s.program]
           [] r.path = "Input/Input_Sel" -> s.input
           [] r.path = "Volume/Lvl" -> s.volume
           [] r.path = "Sound_Video/Dialogue_Adjust/Dialogue_Lvl" -> s.dialogue
           [] r.path = "Input/Input_Sel_Item" -> desc.inputs
           [] r.path = "Config" -> desc.scenes
           [] r.path = "Basic_Status" ->
                  [power |-> s.power, input |-> s.input, mute |-> s.mute, volume |-> s.volume]
           [] OTHER -> None

\* the entry of rx a request addresses
RxEntry(r) == IF r.top \in DOMAIN rx THEN r.top ELSE "Sources"

\* The receiver answers the request of caller t with RC 0 (RXV._async_request
\* returns the parsed response).
Receiver(t) ==
    /\ req[t] # NoReq
    /\ req[t].cmd \in {"GET", "PUT"}
    /\ req[t].path # "List_Info"
    /\ LET r == req[t]
           e == RxEntry(r)
       IN /\ rx' = [rx EXCEPT ![e] = RxApply(r, rx[e])]
          /\ resp' = [resp EXCEPT ![t] = [rc |-> "0", val |-> RxAnswer(r, rx[e])]]
    /\ req' = [req EXCEPT ![t] = NoReq]
    /\ UNCHANGED <<coord, store, desc, devinfo, zone, ctrls, zresult, op, arg, pc, loc, result, sent, hist>>

\* The caller takes the outcome of a finished coroutine and is free again.
Leave(t) ==
    /\ pc[t] = "done"
    /\ pc' = [pc EXCEPT ![t] = "idle"]
    /\ op' = [op EXCEPT ![t] = None]
    /\ arg' = [arg EXCEPT ![t] = None]
    /\ loc' = [loc EXCEPT ![t] = NoLoc]
    /\ result' = [result EXCEPT ![t] = NoResult]
    /\ sent' = [sent EXCEPT ![t] = <<>>]
    /\ hist' = [hist EXCEPT ![t] = NoHist]
    /\ UNCHANGED <<coord, store, desc, devinfo, zone, ctrls, zresult, rx, req, resp>>

\* The last await of a coroutine is answered: the coroutine returns.
request_done(t) ==
    /\ pc[t] = "last"
    /\ resp[t] # NoResp
    /\ RcOk(resp[t].rc)
    /\ End(t, Returned(None))
    /\ UNCHANGED <<coord, store, desc, devinfo, zone, ctrls, zresult, rx, op, arg, loc, hist>>

\* the parsed response that a coroutine returns to its caller
ResponseElement == "Element"

\* The last await of a coroutine that returns the response is answered:
\* "response = await self._async_request(...); return response"
request_done_response(t) ==
    /\ pc[t] = "response"
    /\ resp[t] # NoResp
    /\ RcOk(resp[t].rc)
    /\ End(t, Returned(ResponseElement))
    /\ UNCHANGED <<coord, store, desc, devinfo, zone, ctrls, zresult, rx, op, arg, loc, hist>>

\* RC values of a refused request: an error code, or no RC attribute
RcErrors == {"2", None}

\* The receiver refuses the request of caller t: the response carries an RC
\* other than "0" and the request has no effect.
ReceiverError(t) ==
    /\ req[t] # NoReq
    /\ req[t].cmd \in {"GET", "PUT"}
    /\ \E rc \in RcErrors : resp' = [resp EXCEPT ![t] = [rc |-> rc, val |-> None]]
    /\ req' = [req EXCEPT ![t] = NoReq]
    /\ hist' = [hist EXCEPT ![t].failedAt = Len(sent[t])]
    /\ UNCHANGED <<coord, store, desc, devinfo, zone, ctrls, zresult, rx, op, arg, pc, loc, result, sent>>

\* _async_request raises ResponseException on such a response; no coroutine
\* of the session catches it, so the coroutine that awaits the request ends
\* with it wherever it is suspended (the coordinator's poll cycle, which
\* catches it, and async_setup, which assigns the record, have their own
\* actions).
request_failed(t) ==
    /\ pc[t] \notin {"idle", "done"}
    /\ op[t] \notin {"_async_update_data", "async_setup"}
    /\ resp[t] # NoResp
    /\ ~RcOk(resp[t].rc)
    /\ End(t, Raised("ResponseException"))
    /\ UNCHANGED <<coord, store, desc, devinfo, zone, ctrls, zresult, rx, op, arg, loc, hist>>

-----------------------------------------------------------------------------
(* Surround program *)

\* (mutant) the program is not validated
SurroundValidAny(z, surround_name) == TRUE

\* the assert of async_set_surround_program
SurroundValid(z, surround_name) == InList(surround_name, ZonePrograms(z))

\* (mutant) Direct mode is never cleared
NeedsDirectOffNever(direct) == FALSE

\* async_set_surround_program after async_get_direct_mode returned direct:
\* clear Direct mode first when it is on
NeedsDirectOff(direct) == direct

\* async_set_surround_program up to its first await
async_set_surround_program(t, surround_name) ==
    /\ Enter(t, "async_set_surround_program", surround_name)
    /\ IF ~SurroundValid(zone, surround_name)
       THEN End(t, Raised("AssertionError"))
       ELSE IF surround_name = DIRECT
       THEN Await(t, "last", DirectModeReq("PUT", zone, "On"))
       ELSE IF DirectAdvertised(zone)
       THEN Await(t, "get_direct", DirectModeReq("GET", zone, GetParam))
       ELSE Await(t, "last", SurroundPutReq(zone, surround_name))
    /\ UNCHANGED <<coord, store, desc, devinfo, zone, ctrls, zresult, rx, loc>>

\* async_get_direct_mode has its answer
async_set_surround_program_direct(t) ==
    /\ Resumed(t, "async_set_surround_program", "get_direct")
    /\ IF NeedsDirectOff(resp[t].val = "On")
       THEN Await(t, "direct_off", DirectModeReq("PUT", zone, "Off"))
       ELSE Await(t, "last", SurroundPutReq(zone, arg[t]))
    /\ UNCHANGED <<coord, store, desc, devinfo, zone, ctrls, zresult, rx, op, arg, loc, hist>>

\* async_set_direct_mode(False) is acknowledged
async_set_surround_program_put(t) ==
    /\ Resumed(t, "async_set_surround_program", "direct_off")
    /\ Await(t, "last", SurroundPutReq(zone, arg[t]))
    /\ UNCHANGED <<coord, store, desc, devinfo, zone, ctrls, zresult, rx, op, arg, loc, hist>>

\* (mutant) the Straight flag is not looked at
SurroundResultProgramOnly(val) == val.program

\* the value async_get_surround_program returns from the Surround response
SurroundResult(val) == IF val.straight = "On" THEN STRAIGHT ELSE val.program

\* async_get_surround_program up to its first await
async_get_surround_program(t) ==
    /\ Enter(t, "async_get_surround_program", None)
    /\ IF DirectAdvertised(zone)
       THEN Await(t, "get_direct", DirectModeReq("GET", zone, GetParam))
       ELSE Await(t, "get_surround", SurroundGetReq(zone))
    /\ UNCHANGED <<coord, store, desc, devinfo, zone, ctrls, zresult, rx, loc>>

\* async_get_direct_mode has its answer
async_get_surround_program_direct(t) ==
    /\ Resumed(t, "async_get_surround_program", "get_direct")
    /\ IF resp[t].val = "On"
       THEN End(t, Returned(DIRECT))
       ELSE Await(t, "get_surround", SurroundGetReq(zone))
    /\ UNCHANGED <<coord, store, desc, devinfo, zone, ctrls, zresult, rx, op, arg, loc, hist>>

\* the Surround GET has its answer
async_get_surround_program_result(t) ==
    /\ Resumed(t, "async_get_surround_program", "get_surround")
    /\ End(t, Returned(SurroundResult(resp[t].val)))
    /\ UNCHANGED <<coord, store, desc, devinfo, zone, ctrls, zresult, rx, op, arg, loc, hist>>

-----------------------------------------------------------------------------
(* Input and scene *)

\* the assert of async_set_input
InputValid(input_name) == input_name \in DOMAIN devinfo.inputs_source

\* the assert of async_set_scene
SceneValid(scene_name) == scene_name \in DOMAIN devinfo.scenes_number

\* async_set_input(input_name)
async_set_input(t, input_name) ==
    /\ Enter(t, "async_set_input", input_name)
    /\ IF ~InputValid(input_name)
       THEN End(t, Raised("AssertionError"))
       ELSE Await(t, "last", InputReq("PUT", zone, input_name))
    /\ UNCHANGED <<coord, store, desc, devinfo, zone, ctrls, zresult, rx, loc>>

\* async_set_scene(scene_name)
async_set_scene(t, scene_name) ==
    /\ Enter(t, "async_set_scene", scene_name)
    /\ IF ~SceneValid(scene_name)
       THEN End(t, Raised("AssertionError"))
       ELSE Await(t, "last", SceneReq(zone, devinfo.scenes_number[scene_name]))
    /\ UNCHANGED <<coord, store, desc, devinfo, zone, ctrls, zresult, rx, loc>>

-----------------------------------------------------------------------------
(* Playback control *)

\* _async_playback_control(action) up to its first await: _async_get_src_name()
\* without an input asks the receiver for the current input
async_playback_control(t, action) ==
    /\ Enter(t, "_async_playback_control", action)
    /\ Await(t, "get_input", InputReq("GET", zone, GetParam))
    /\ UNCHANGED <<coord, store, desc, devinfo, zone, ctrls, zresult, rx, loc>>

\* what _async_playback_control does once the current input is known:
\* "return", "raise" or "put"
PlaybackDecision(z, cur_input) ==
    LET src == GetSrcName(z, cur_input) IN
    IF Falsy(src[1]) THEN "return"
    ELSE IF ~async_is_playback_supported(z, src[2]) THEN "raise"
    ELSE "put"

\* the current input is known
async_playback_control_input(t) ==
    /\ Resumed(t, "_async_playback_control", "get_input")
    /\ LET cur_input == resp[t].val
           d == PlaybackDecision(zone, cur_input)
       IN CASE d = "return" -> End(t, Returned(None))
            [] d = "raise" -> End(t, Raised("PlaybackUnavailable"))
            [] OTHER -> Await(t, "response",
                              PlayControlReq(GetSrcName(zone, cur_input)[1], arg[t]))
    /\ UNCHANGED <<coord, store, desc, devinfo, zone, ctrls, zresult, rx, op, arg, loc, hist>>

-----------------------------------------------------------------------------
(* Menu cursor *)

\* async_set_menu_cursor(action) up to its first await
async_set_menu_cursor(t, action) ==
    /\ Enter(t, "async_set_menu_cursor", action)
    /\ Await(t, "get_input", InputReq("GET", zone, GetParam))
    /\ UNCHANGED <<coord, store, desc, devinfo, zone, ctrls, zresult, rx, loc>>

\* the template async_set_menu_cursor chooses for a source, None without one
CursorTemplate(src_name) ==
    IF supports_method(src_name, <<"List_Control", "Cursor">>) THEN "List_Control/Cursor"
    ELSE IF supports_method(src_name, <<"Cursor_Control", "Cursor">>) THEN "Cursor_Control/Cursor"
    ELSE None

\* (mutant) the action is not checked against the advertised cursor actions
CursorDecisionNoActionCheck(z, cur_input, action) ==
    LET src_name == GetSrcName(z, cur_input)[1] IN
    IF Falsy(src_name) THEN "MenuUnavailable"
    ELSE IF CursorTemplate(src_name) = None THEN "MenuUnavailable"
    ELSE "put"

\* what async_set_menu_cursor does once the current input is known
CursorDecision(z, cur_input, action) ==
    LET src_name == GetSrcName(z, cur_input)[1] IN
    IF Falsy(src_name) THEN "MenuUnavailable"
    ELSE IF CursorTemplate(src_name) = None THEN "MenuUnavailable"
    ELSE IF action \notin async_get_supported_cursor_actions(src_name)
    THEN "MenuActionUnavailable"
    ELSE "put"

\* the current input is known
async_set_menu_cursor_input(t) ==
    /\ Resumed(t, "async_set_menu_cursor", "get_input")
    /\ LET cur_input == resp[t].val
           src_name == GetSrcName(zone, cur_input)[1]
           d == CursorDecision(zone, cur_input, arg[t])
       IN IF d = "put"
          THEN Await(t, "response", CursorReq(CursorTemplate(src_name), src_name, arg[t]))
          ELSE End(t, Raised(d))
    /\ UNCHANGED <<coord, store, desc, devinfo, zone, ctrls, zresult, rx, op, arg, loc, hist>>

-----------------------------------------------------------------------------
(* Specification of the session operations: one caller, one session on a   *)
(* zone of the receiver, the receiver in any state of that zone.           *)

SessionZones == {"Main_Zone", "Zone_2"}
RxInputs == {"SERVER", "NET RADIO", "TUNER", "HDMI1", "AV1", "USB", "AUDIO1"}
RxPrograms == {"Hall", "Jazz"}
SurroundNames == {STRAIGHT, DIRECT, "Hall", "Jazz"}
InputNames == {"SERVER", "HDMI1", "AUDIO1"}
SceneNames == {"TV Viewing", "Movie Night"}
PlayActions == {"Play", "Stop", "Skip Fwd"}
CursorActions == {"Up", "Menu"}

RxKeys == {"Main_Zone", "Zone_2", "Zone_3", "Sources"}

\* the coordinator before its first poll cycle
NoCoord == [data |-> None, ok |-> TRUE, cycles |-> 0, rxv |-> FALSE]

\* a session without entry id: no store object, nothing saved, no write
NoStore == [entry_id |-> None, handle |-> FALSE, saved |-> NoDevice, writes |-> 0]

\* the descriptor documents are not looked at
NoDesc == [device |-> None, unit |-> None, inputs |-> <<>>, scenes |-> <<>>, hits |-> 0]

\* what the session operations do not touch: coordinator, store, descriptors
InitHost ==
    /\ coord = NoCoord
    /\ store = NoStore
    /\ desc = NoDesc

InitTasks ==
    /\ op = [t \in Tasks |-> None]
    /\ arg = [t \in Tasks |-> None]
    /\ pc = [t \in Tasks |-> "idle"]
    /\ loc = [t \in Tasks |-> NoLoc]
    /\ req = [t \in Tasks |-> NoReq]
    /\ resp = [t \in Tasks |-> NoResp]
    /\ result = [t \in Tasks |-> NoResult]
    /\ sent = [t \in Tasks |-> <<>>]
    /\ hist = [t \in Tasks |-> NoHist]

Init ==
    /\ devinfo = DefaultDevice
    /\ zone \in SessionZones
    /\ ctrls = <<>>
    /\ zresult = NoZoneResult
    /\ \E i \in RxInputs, d \in BOOLEAN, s \in BOOLEAN, p \in RxPrograms :
          /\ d => InList(DIRECT, DefaultDevice.zone_surround_programs[zone])
          /\ rx = [k \in RxKeys |-> IF k = zone THEN RxZone(i, d, s, p) ELSE RxDefault]
    /\ InitHost
    /\ InitTasks

Next ==
    \/ \E n \in SurroundNames : async_set_surround_program(Caller, n)
    \/ async_set_surround_program_direct(Caller)
    \/ async_set_surround_program_put(Caller)
    \/ async_get_surround_program(Caller)
    \/ async_get_surround_program_direct(Caller)
    \/ async_get_surround_program_result(Caller)
    \/ \E n \in InputNames : async_set_input(Caller, n)
    \/ \E n \in SceneNames : async_set_scene(Caller, n)
    \/ \E a \in PlayActions : async_playback_control(Caller, a)
    \/ async_playback_control_input(Caller)
    \/ \E a \in CursorActions : async_set_menu_cursor(Caller, a)
    \/ async_set_menu_cursor_input(Caller)
    \/ request_done(Caller)
    \/ request_done_response(Caller)
    \/ Receiver(Caller)
    \/ Leave(Caller)

Spec == Init /\ [][Next]_vars

\* The same operations against a receiver that may refuse any request.
NextRC ==
    \/ Next
    \/ ReceiverError(Caller)
    \/ request_failed(Caller)

SpecRC == Init /\ [][NextRC]_vars

-----------------------------------------------------------------------------
(* Menu traversal.  Texts are sequences of characters.                     *)

MaxAttempts == 20
MaxSegments == 3
MaxLineNo == 10

SEP == ">"
NoneText == <<None>>
LinePrefix == <<"L", "i", "n", "e", "_">>

RECURSIVE SplitAcc(_, _, _, _)
SplitAcc(path, i, cur, acc) ==
    IF i > Len(path) THEN Append(acc, cur)
    ELSE IF path[i] = SEP THEN SplitAcc(path, i + 1, <<>>, Append(acc, cur))
    ELSE SplitAcc(path, i + 1, Append(cur, path[i]), acc)

\* path.split(">")
Split(path) == SplitAcc(path, 1, <<>>, <<>>)

\* line[5:]
LineSuffix(line) == SubSeq(line, 6, Len(line))

\* SelectServerLine.format(lineno=lineno), not wrapped in a zone
SelectServerLineReq(lineno) ==
    Request("PUT", "SERVER", "List_Control/Direct_Sel", LinePrefix \o lineno)

\* ListGet.format(src_name=src_name), not wrapped in a zone
ListGetReq(src_name) == Request("GET", src_name, "List_Info", GetParam)

\* the dictionary cl of async_get_menu_status: the lines that are not
\* Unselectable, in document order
CurrentList(lines) == SelectSeq(lines, LAMBDA l : l.attr # "Unselectable")

\* layers[index] of Python for a 0-based index that may be negative
PyIndexOk(list, index) == index >= -Len(list) /\ index < Len(list)
PyIndex(list, index) == IF index >= 0 THEN list[index + 1] ELSE list[Len(list) + index + 1]

\* the first line of cl whose text equals the segment, 0 without one
FirstMatch(cl, segment) ==
    LET hits == {i \in 1..Len(cl) : cl[i].txt = segment} IN
    IF hits = {} THEN 0 ELSE CHOOSE i \in hits : \A j \in hits : i <= j

\* The body of one attempt of the traversal loop once menu is known: "next"
\* (no select in this attempt), "IndexError", or "select" with the line.
TraverseStep(menu, layers) ==
    LET cl == CurrentList(menu.list) IN
    IF ~menu.ready \/ cl = <<>> THEN [kind |-> "next", line |-> 0]
    ELSE IF ~PyIndexOk(layers, menu.layer - 1) THEN [kind |-> "IndexError", line |-> 0]
    ELSE LET m == FirstMatch(cl, PyIndex(layers, menu.layer - 1)) IN
         IF m = 0 THEN [kind |-> "next", line |-> 0]
         ELSE [kind |-> "select", line |-> cl[m]]

\* (mutant) the loop runs one attempt more
MoreAttemptsOneOver(attempt) == attempt + 1 < MaxAttempts + 1

\* "for attempt in range(20)": another attempt follows attempt
MoreAttempts(attempt) == attempt + 1 < MaxAttempts

\* (mutant) the traversal goes on after the select of the final layer
ReturnAfterSelectNever(layer, layers) == FALSE

\* "if menu.layer == len(layers): return"
ReturnAfterSelect(layer, layers) == layer = Len(layers)

\* what the traversal has sent, counted: requests, polls of the menu status
\* (List_Info) and selects (Direct_Sel)
Count(h, r) ==
    [h EXCEPT !.nreq = @ + 1,
              !.polls = IF r.path = "List_Info" THEN @ + 1 ELSE @,
              !.selects = IF r.path = "List_Control/Direct_Sel" THEN @ + 1 ELSE @]

\* Await for the traversal, which counts its requests instead of listing them
CountedAwait(t, label, r, h) ==
    /\ pc' = [pc EXCEPT ![t] = label]
    /\ req' = [req EXCEPT ![t] = r]
    /\ resp' = [resp EXCEPT ![t] = NoResp]
    /\ hist' = [hist EXCEPT ![t] = Count(h, r)]
    /\ UNCHANGED <<result, sent>>

\* the next attempt of the loop calls async_get_menu_status, whose
\* _async_get_src_name() asks for the current input; after the last attempt
\* the function falls off its end (menu, dead until it is assigned again, is
\* forgotten)
NextAttempt(t) ==
    IF MoreAttempts(loc[t].attempt)
    THEN /\ CountedAwait(t, "menu_input", InputReq("GET", zone, GetParam),
                         hist[t])
         /\ loc' = [loc EXCEPT ![t].attempt = @ + 1, ![t].menu = None]
    ELSE /\ End(t, Returned(None))
         /\ UNCHANGED <<loc, hist>>

\* async_set_server(path) up to its first await: async_set_input(INPUT_SERVER)
async_set_server(t, path) ==
    /\ pc[t] = "idle"
    /\ op' = [op EXCEPT ![t] = "async_set_server"]
    /\ arg' = [arg EXCEPT ![t] = path]
    /\ loc' = [loc EXCEPT ![t] = [layers |-> Split(path), attempt |-> 0, menu |-> None]]
    /\ LET h == [NoHist EXCEPT !.rx0 = rx, !.zone0 = zone] IN
       IF ~InputValid(INPUT_SERVER)
       THEN /\ End(t, Raised("AssertionError"))
            /\ hist' = [hist EXCEPT ![t] = h]
       ELSE CountedAwait(t, "input_set", InputReq("PUT", zone, INPUT_SERVER), h)
    /\ UNCHANGED <<coord, store, desc, devinfo, zone, ctrls, zresult, rx>>

\* the input is switched: the loop starts with attempt 0
async_set_server_loop(t) ==
    /\ Resumed(t, "async_set_server", "input_set")
    /\ CountedAwait(t, "menu_input", InputReq("GET", zone, GetParam), hist[t])
    /\ UNCHANGED <<coord, store, desc, devinfo, zone, ctrls, zresult, rx, op, arg, loc>>

\* async_get_menu_status: the current input is known
async_get_menu_status_input(t) ==
    /\ Resumed(t, "async_set_server", "menu_input")
    /\ LET src_name == GetSrcName(zone, resp[t].val)[1] IN
       IF Falsy(src_name)
       THEN /\ End(t, Raised("MenuUnavailable"))
            /\ UNCHANGED hist
       ELSE CountedAwait(t, "menu_list", ListGetReq(src_name), hist[t])
    /\ UNCHANGED <<coord, store, desc, devinfo, zone, ctrls, zresult, rx, op, arg, loc>>

\* async_get_menu_status returned menu: the body of the attempt
async_set_server_menu(t) ==
    /\ Resumed(t, "async_set_server", "menu_list")
    /\ LET menu == resp[t].val
           step == TraverseStep(menu, loc[t].layers)
       IN CASE step.kind = "IndexError" ->
                  /\ End(t, Raised("IndexError"))
                  /\ UNCHANGED <<loc, hist>>
            [] step.kind = "select" ->
                  /\ CountedAwait(t, "select", SelectServerLineReq(LineSuffix(step.line.tag)),
                                  [hist[t] EXCEPT !.finalSel = @ \/ menu.layer = Len(loc[t].layers)])
                  /\ loc' = [loc EXCEPT ![t].menu = menu]
            [] OTHER -> NextAttempt(t)
    /\ UNCHANGED <<coord, store, desc, devinfo, zone, ctrls, zresult, rx, op, arg>>

\* the select is acknowledged
async_set_server_selected(t) ==
    /\ Resumed(t, "async_set_server", "select")
    /\ IF ReturnAfterSelect(loc[t].menu.layer, loc[t].layers)
       THEN /\ End(t, Returned(None))
            /\ UNCHANGED <<loc, hist>>
       ELSE NextAttempt(t)
    /\ UNCHANGED <<coord, store, desc, devinfo, zone, ctrls, zresult, rx, op, arg>>

\* async_set_net_radio(path) up to its first await: async_set_input(INPUT_NET_RADIO)
async_set_net_radio(t, path) ==
    /\ pc[t] = "idle"
    /\ op' = [op EXCEPT ![t] = "async_set_net_radio"]
    /\ arg' = [arg EXCEPT ![t] = path]
    /\ loc' = [loc EXCEPT ![t] = [layers |-> Split(path), attempt |-> 0, menu |-> None]]
    /\ LET h == [NoHist EXCEPT !.rx0 = rx, !.zone0 = zone] IN
       IF ~InputValid(INPUT_NET_RADIO)
       THEN /\ End(t, Raised("AssertionError"))
            /\ hist' = [hist EXCEPT ![t] = h]
       ELSE CountedAwait(t, "input_set", InputReq("PUT", zone, INPUT_NET_RADIO), h)
    /\ UNCHANGED <<coord, store, desc, devinfo, zone, ctrls, zresult, rx>>

\* The input is switched: async_menu_reset() evaluates self.menu_status(),
\* an attribute the class does not define, so the call raises AttributeError
\* before anything of the reset or of the loop is sent.
async_menu_reset(t) ==
    /\ Resumed(t, "async_set_net_radio", "input_set")
    /\ End(t, Raised("AttributeError"))
    /\ UNCHANGED <<coord, store, desc, devinfo, zone, ctrls, zresult, rx, op, arg, loc, hist>>

-----------------------------------------------------------------------------
(* The receiver's menu.  A List_Info reply is whatever the receiver shows   *)
(* at that moment: ready or not, any layer, any page of lines.              *)

DigitChar(d) == <<"0", "1", "2", "3", "4", "5", "6", "7", "8", "9">>[d + 1]

RECURSIVE Digits(_)
Digits(n) == IF n < 10 THEN <<DigitChar(n)>> ELSE Digits(n \div 10) \o <<DigitChar(n % 10)>>

\* a line element of Current_List: <Line_no><Txt>txt</Txt><Attribute>attr</Attribute>
Line(no, txt, attr) == [no |-> no, tag |-> LinePrefix \o Digits(no), txt |-> txt, attr |-> attr]

TextA == <<"a">>
TextB == <<"b">>

MenuLists ==
    { <<>>,
      <<Line(1, TextA, "Item")>>,
      <<Line(1, TextB, "Container")>>,
      <<Line(1, TextB, "Container"), Line(2, TextA, "Item")>>,
      <<Line(1, TextA, "Unselectable"), Line(2, TextA, "Item"), Line(MaxLineNo, TextA, "Item")>>,
      <<Line(1, NoneText, "Item"), Line(MaxLineNo, TextB, "Container")>>,
      <<Line(MaxLineNo, TextA, "Item")>> }

MenuStatus(ready, layer, list) == [ready |-> ready, layer |-> layer, list |-> list]

\* the positions of the separators of a path, and its segments by position
SepPositions(path) == {i \in 1..Len(path) : path[i] = SEP}
NumSegments(path) == Cardinality(SepPositions(path)) + 1
NthSep(path, k) ==
    CHOOSE p \in SepPositions(path) : Cardinality({q \in SepPositions(path) : q < p}) = k - 1
SegmentAt(path, k) ==
    SubSeq(path,
           IF k = 1 THEN 1 ELSE NthSep(path, k - 1) + 1,
           IF k = NumSegments(path) THEN Len(path) ELSE NthSep(path, k) - 1)

\* a reply of a cooperative receiver: ready, at the layer after the selects
\* made so far, showing that layer's segment in a selectable line
Cooperative(menu, path, selects) ==
    /\ menu.ready
    /\ menu.layer = selects + 1
    /\ menu.layer <= NumSegments(path)
    /\ \E i \in 1..Len(menu.list) :
          /\ menu.list[i].attr # "Unselectable"
          /\ menu.list[i].txt = SegmentAt(path, menu.layer)

\* The receiver answers a List_Info request of caller t.
MenuReceiver(t) ==
    /\ req[t] # NoReq
    /\ req[t].path = "List_Info"
    /\ \E menu \in {MenuStatus(FALSE, 1, <<>>)} \cup
                   {MenuStatus(TRUE, l, list) :
                        l \in (0..(MaxSegments + 1)) \cup {hist[t].selects + 1},
                        list \in MenuLists} :
          /\ resp' = [resp EXCEPT ![t] = [rc |-> "0", val |-> menu]]
          /\ hist' = [hist EXCEPT ![t].everReady = @ \/ menu.ready,
                                  ![t].coop = @ /\ Cooperative(menu, arg[t], hist[t].selects)]
    /\ req' = [req EXCEPT ![t] = NoReq]
    /\ UNCHANGED <<coord, store, desc, devinfo, zone, ctrls, zresult, rx, op, arg, pc, loc, result, sent>>

-----------------------------------------------------------------------------
(* Specification of the menu traversal: one traversal by one caller on     *)
(* Main_Zone.                                                              *)

RECURSIVE Join(_)
Join(segs) == IF Len(segs) = 1 THEN segs[1] ELSE segs[1] \o <<SEP>> \o Join(Tail(segs))

\* a path of n segments a > b > a > ...
AltPath(n) == Join([k \in 1..n |-> IF k % 2 = 1 THEN TextA ELSE TextB])

\* a path of one segment more than the loop has attempts
LongPath == Join([k \in 1..(MaxAttempts + 1) |-> TextA])

Paths == {AltPath(n) : n \in 1..MaxSegments} \cup {<<>>, LongPath}

InitMenu ==
    /\ devinfo = DefaultDevice
    /\ zone = "Main_Zone"
    /\ ctrls = <<>>
    /\ zresult = NoZoneResult
    /\ \E i \in {"HDMI1", "SERVER"} :
          rx = [k \in RxKeys |-> IF k = zone THEN RxZone(i, FALSE, FALSE, "Hall") ELSE RxDefault]
    /\ InitHost
    /\ InitTasks

NextMenu ==
    \/ \E p \in Paths : async_set_server(Caller, p)
    \/ async_set_server_loop(Caller)
    \/ async_get_menu_status_input(Caller)
    \/ async_set_server_menu(Caller)
    \/ async_set_server_selected(Caller)
    \/ \E p \in Paths : async_set_net_radio(Caller, p)
    \/ async_menu_reset(Caller)
    \/ Receiver(Caller)
    \/ MenuReceiver(Caller)

SpecMenu == InitMenu /\ [][NextMenu]_vars

-----------------------------------------------------------------------------
(* Zone controllers.  A session is its zone selection and a reference to    *)
(* the capability record; zone_controllers and the zone setter do not await.*)

DeviceRef == "_device"

\* the originating session as an object
Self == [zone |-> zone, device |-> DeviceRef]

\* (mutant) a deep copy: the new object gets a device record of its own
CopyOfDeep(self) == [self EXCEPT !.device = "_device_copy"]

\* copy.copy(self): a new object with the same attribute values
CopyOf(self) == self

\* (mutant) the zone setter validates and does not assign
ZoneSetterNoAssign(ctrl, zone_name) ==
    [ok |-> InList(zone_name, devinfo.zones), ctrl |-> ctrl]

\* the zone setter: assert zone_name in self._device.zones, then assign
ZoneSetter(ctrl, zone_name) ==
    IF InList(zone_name, devinfo.zones)
    THEN [ok |-> TRUE, ctrl |-> [ctrl EXCEPT !.zone = zone_name]]
    ELSE [ok |-> FALSE, ctrl |-> ctrl]

\* the loop of zone_controllers from the i-th zone on
RECURSIVE ControllersFrom(_, _, _)
ControllersFrom(self, i, controllers) ==
    IF i > Len(devinfo.zones) THEN controllers
    ELSE ControllersFrom(self, i + 1,
                         Append(controllers, ZoneSetter(CopyOf(self), devinfo.zones[i]).ctrl))

\* zone_controllers()
zone_controllers ==
    /\ IF devinfo = NoDevice
       THEN /\ zresult' = [op |-> "zone_controllers", who |-> 0, kind |-> "raise",
                           val |-> "AttributeError", zone0 |-> zone]
            /\ UNCHANGED ctrls
       ELSE /\ ctrls' = ControllersFrom(Self, 1, <<>>)
            /\ zresult' = [op |-> "zone_controllers", who |-> 0, kind |-> "return",
                           val |-> None, zone0 |-> zone]
    /\ UNCHANGED <<coord, store, desc, devinfo, zone, rx, op, arg, pc, loc, req, resp, result, sent, hist>>

\* session.zone = zone_name on the originating session
set_zone(zone_name) ==
    /\ IF devinfo = NoDevice
       THEN /\ zresult' = [op |-> "zone", who |-> 0, kind |-> "raise",
                           val |-> "AttributeError", zone0 |-> zone]
            /\ UNCHANGED zone
       ELSE LET r == ZoneSetter(Self, zone_name) IN
            /\ zone' = r.ctrl.zone
            /\ zresult' = [op |-> "zone", who |-> 0,
                           kind |-> IF r.ok THEN "return" ELSE "raise",
                           val |-> IF r.ok THEN None ELSE "AssertionError", zone0 |-> zone]
    /\ UNCHANGED <<coord, store, desc, devinfo, ctrls, rx, op, arg, pc, loc, req, resp, result, sent, hist>>

\* controllers[i].zone = zone_name on a controller that zone_controllers returned
set_controller_zone(i, zone_name) ==
    /\ i \in 1..Len(ctrls)
    /\ LET r == ZoneSetter(ctrls[i], zone_name) IN
       /\ ctrls' = [ctrls EXCEPT ![i] = r.ctrl]
       /\ zresult' = [op |-> "zone", who |-> i,
                      kind |-> IF r.ok THEN "return" ELSE "raise",
                      val |-> IF r.ok THEN None ELSE "AssertionError",
                      zone0 |-> ctrls[i].zone]
    /\ UNCHANGED <<coord, store, desc, devinfo, zone, rx, op, arg, pc, loc, req, resp, result, sent, hist>>

\* The sessions of the model are numbered: 0 is the originating session, i
\* the i-th controller of the list.  self.zone of session who:
ZoneOf(who) == IF who = 0 THEN zone ELSE ctrls[who].zone

\* the session whose coroutine caller t runs, 0 when it runs none
Acting(t) == IF pc[t] = "idle" THEN 0 ELSE loc[t].who

\* (mutant) a controller wraps its zone commands in the zone of the
\* originating session
ZoneTagOfOrigin(who) == zone

\* the tag _async_request wraps a zone command of session who in: self._zone
ZoneTag(who) == ZoneOf(who)

\* who.async_get_input() up to its await
session_async_get_input(t, who) ==
    /\ who \in 0..Len(ctrls)
    /\ Enter(t, "async_get_input", None)
    /\ loc' = [loc EXCEPT ![t] = [who |-> who]]
    /\ Await(t, "get_input_zone", InputReq("GET", ZoneTag(who), GetParam))
    /\ UNCHANGED <<coord, store, desc, devinfo, zone, ctrls, zresult, rx>>

\* who.async_get_input() after the response: the response carries the tag of
\* the request, and Input_Sel is looked up under self.zone as it is now;
\* find() gives None under another tag and .text raises AttributeError
session_async_get_input_done(t) ==
    /\ Resumed(t, "async_get_input", "get_input_zone")
    /\ LET tag == sent[t][Len(sent[t])].top IN
       End(t, IF ZoneOf(loc[t].who) = tag THEN Returned(resp[t].val)
              ELSE Raised("AttributeError"))
    /\ UNCHANGED <<coord, store, desc, devinfo, zone, ctrls, zresult, rx, op, arg, loc, hist>>

\* who.async_set_input(input_name)
session_async_set_input(t, who, input_name) ==
    /\ who \in 0..Len(ctrls)
    /\ Enter(t, "async_set_input", input_name)
    /\ loc' = [loc EXCEPT ![t] = [who |-> who]]
    /\ IF devinfo = NoDevice THEN End(t, Raised("AttributeError"))
       ELSE IF ~InputValid(input_name) THEN End(t, Raised("AssertionError"))
       ELSE Await(t, "last", InputReq("PUT", ZoneTag(who), input_name))
    /\ UNCHANGED <<coord, store, desc, devinfo, zone, ctrls, zresult, rx>>

-----------------------------------------------------------------------------
(* Specification of the zone controllers: a session constructed on any     *)
(* zone name, set up on a receiver with one to MaxZones zones, or not set   *)
(* up at all.                                                               *)

MaxZones == 3

AllZoneNames == <<"Main_Zone", "Zone_2", "Zone_3", "Zone_4", "Zone_5">>

ZoneLists ==
    {SubSeq(AllZoneNames, 1, n) : n \in 1..MaxZones}
        \cup {[k \in 1..n |-> AllZoneNames[n + 1 - k]] : n \in 2..MaxZones}

ZoneArgs == {AllZoneNames[k] : k \in 1..MaxZones} \cup {"Zone_9"}

InitZones ==
    /\ devinfo \in {NoDevice} \cup {[DefaultDevice EXCEPT !.zones = zl] : zl \in ZoneLists}
    /\ zone \in ZoneArgs
    /\ ctrls = <<>>
    /\ zresult = NoZoneResult
    /\ rx = [k \in RxKeys |-> RxDefault]
    /\ InitHost
    /\ InitTasks

NextZones ==
    \/ zone_controllers
    \/ \E z \in ZoneArgs : set_zone(z)
    \/ \E i \in 1..MaxZones, z \in ZoneArgs : set_controller_zone(i, z)

SpecZones == InitZones /\ [][NextZones]_vars

-----------------------------------------------------------------------------
(* Specification of the sessions of one receiver: a session constructed on  *)
(* any zone name and set up on the receiver of DefaultDevice, and the       *)
(* controllers it makes.  Zone changes and zone_controllers() run between   *)
(* the steps of a coroutine.                                                *)

\* zone arguments of the constructor and of the zone setter
SessionZoneArgs == {"Main_Zone", "Zone_3", "Zone_9"}

\* inputs the sessions switch to: the one the zones are on already, and one
\* outside the capability set
ZoneInputs == {"HDMI1", "AUDIO9"}

SessionIds == 0..Len(DefaultDevice.zones)

InitSessions ==
    /\ devinfo = DefaultDevice
    /\ zone \in SessionZoneArgs
    /\ ctrls = <<>>
    /\ zresult = NoZoneResult
    /\ rx = [k \in RxKeys |-> RxDefault]
    /\ InitHost
    /\ InitTasks

\* zone_controllers() is called while no controller of the previous list is
\* in the middle of a coroutine
NextSessions ==
    \/ /\ Acting(Caller) = 0
       /\ zone_controllers
    \/ \E z \in SessionZoneArgs : set_zone(z)
    \/ \E i \in SessionIds, z \in SessionZoneArgs : set_controller_zone(i, z)
    \/ \E w \in SessionIds : session_async_get_input(Caller, w)
    \/ session_async_get_input_done(Caller)
    \/ \E w \in SessionIds, n \in ZoneInputs : session_async_set_input(Caller, w, n)
    \/ request_done(Caller)
    \/ Receiver(Caller)
    \/ Leave(Caller)

SpecSessions == InitSessions /\ [][NextSessions]_vars

-----------------------------------------------------------------------------
(* Volume.  A volume of the callers is a number of dB (a float); the model  *)
(* writes it in hundredths of a dB: v stands for v/100 dB.  The receiver    *)
(* keeps the text of Val, a number of tenths of a dB.                       *)

\* (mutant) the quotient is rounded down
PyIntFloor(num, den) == num \div den

\* int(x) of the quotient x = num/den, den > 0: truncation toward zero
PyInt(num, den) == IF num >= 0 THEN num \div den ELSE -((-num) \div den)

\* str(n) of an int
PyStrInt(n) == IF n < 0 THEN <<"-">> \o Digits(-n) ELSE Digits(n)

DigitVal(c) == CHOOSE d \in 0..9 : DigitChar(d) = c

RECURSIVE NatOfDigits(_)
NatOfDigits(text) ==
    IF Len(text) = 1 THEN DigitVal(text[1])
    ELSE NatOfDigits(SubSeq(text, 1, Len(text) - 1)) * 10 + DigitVal(text[Len(text)])

\* float(text) of the text of a decimal integer
PyFloat(text) == IF text[1] = "-" THEN -NatOfDigits(Tail(text)) ELSE NatOfDigits(text)

\* VolumeLevel.format(value=...) wrapped in the zone
VolumeReq(cmd, z, val) == Request(cmd, z, "Volume/Lvl", val)

\* str(int(value * 2) * 5)
VolumeVal(value) == PyStrInt(PyInt(value * 2, 100) * 5)

\* (mutant) the reading is not scaled from tenths of a dB to dB
VolumeOfValUnscaled(vol) == PyFloat(vol) * 100

\* float(vol) / 10.0, in hundredths of a dB
VolumeOfVal(vol) == PyFloat(vol) * 10

\* async_set_volume(value)
async_set_volume(t, value) ==
    /\ Enter(t, "async_set_volume", value)
    /\ Await(t, "last", VolumeReq("PUT", zone,
                                  [val |-> VolumeVal(value), exp |-> 1, unit |-> "dB"]))
    /\ UNCHANGED <<coord, store, desc, devinfo, zone, ctrls, zresult, rx, loc>>

\* async_get_volume() up to its await
async_get_volume(t) ==
    /\ Enter(t, "async_get_volume", None)
    /\ Await(t, "get_volume", VolumeReq("GET", zone, GetParam))
    /\ UNCHANGED <<coord, store, desc, devinfo, zone, ctrls, zresult, rx, loc>>

\* async_get_volume() after the response
async_get_volume_done(t) ==
    /\ Resumed(t, "async_get_volume", "get_volume")
    /\ End(t, Returned(VolumeOfVal(resp[t].val)))
    /\ UNCHANGED <<coord, store, desc, devinfo, zone, ctrls, zresult, rx, op, arg, loc, hist>>

\* async_volume_fade(final_vol) up to its await, final_vol a whole number
\* of dB: async_get_volume()
async_volume_fade(t, final_vol) ==
    /\ Enter(t, "async_volume_fade", final_vol)
    /\ Await(t, "fade_volume", VolumeReq("GET", zone, GetParam))
    /\ UNCHANGED <<coord, store, desc, devinfo, zone, ctrls, zresult, rx, loc>>

\* the volume is known: start_vol = int(floor(volume)), step towards
\* final_vol, and the first async_set_volume of range(start_vol,
\* final_vol + step, step), which is never empty
async_volume_fade_start(t) ==
    /\ Resumed(t, "async_volume_fade", "fade_volume")
    /\ LET start_vol == VolumeOfVal(resp[t].val) \div 100
           step == IF arg[t] > start_vol THEN 1 ELSE -1
       IN /\ loc' = [loc EXCEPT ![t] = [val |-> start_vol, step |-> step]]
          /\ Await(t, "fade_set",
                   VolumeReq("PUT", zone,
                             [val |-> VolumeVal(start_vol * 100), exp |-> 1, unit |-> "dB"]))
    /\ UNCHANGED <<coord, store, desc, devinfo, zone, ctrls, zresult, rx, op, arg, hist>>

\* a volume of the fade is set ("asyncio.sleep(sleep)" is not awaited): the
\* next value of the range, or the end after final_vol
async_volume_fade_step(t) ==
    /\ Resumed(t, "async_volume_fade", "fade_set")
    /\ IF loc[t].val = arg[t]
       THEN /\ End(t, Returned(None))
            /\ UNCHANGED loc
       ELSE LET val == loc[t].val + loc[t].step IN
            /\ loc' = [loc EXCEPT ![t].val = val]
            /\ Await(t, "fade_set",
                     VolumeReq("PUT", zone,
                               [val |-> VolumeVal(val * 100), exp |-> 1, unit |-> "dB"]))
    /\ UNCHANGED <<coord, store, desc, devinfo, zone, ctrls, zresult, rx, op, arg, hist>>

-----------------------------------------------------------------------------
(* Power and mute *)

\* PowerControl.format(state=...) wrapped in the zone
PowerReq(cmd, z, val) == Request(cmd, z, "Power_Control/Power", val)

\* VolumeMute.format(state=...) wrapped in the zone
MuteReq(cmd, z, val) == Request(cmd, z, "Volume/Mute", val)

\* async_turn_on_off(state) for a bool state, which passes the assert;
\* async_turn_on() and async_turn_off() are the calls with True and False
async_turn_on_off(t, state) ==
    /\ Enter(t, "async_turn_on_off", state)
    /\ Await(t, "response", PowerReq("PUT", zone, IF state THEN "On" ELSE "Standby"))
    /\ UNCHANGED <<coord, store, desc, devinfo, zone, ctrls, zresult, rx, loc>>

\* async_set_mute(mute) for a bool mute, which passes the assert
async_set_mute(t, mute) ==
    /\ Enter(t, "async_set_mute", mute)
    /\ Await(t, "response", MuteReq("PUT", zone, IF mute THEN "On" ELSE "Off"))
    /\ UNCHANGED <<coord, store, desc, devinfo, zone, ctrls, zresult, rx, loc>>

-----------------------------------------------------------------------------
(* Specification of the volume: one caller sets a volume or fades to one,   *)
(* and when that call has returned a second caller reads the volume.        *)

MaxDb == 81

\* the volumes from -MaxDb dB to MaxDb dB in steps of 0.01 dB
Volumes == (-(MaxDb * 100))..(MaxDb * 100)

Reader == "t2"

InitVolume ==
    /\ devinfo = DefaultDevice
    /\ zone = "Main_Zone"
    /\ ctrls = <<>>
    /\ zresult = NoZoneResult
    /\ \E v \in {<<"-", "4", "0", "0">>, <<"-", "4", "0", "5">>} :
          rx = [k \in RxKeys |-> [RxDefault EXCEPT !.volume = v]]
    /\ InitHost
    /\ InitTasks

\* the whole numbers of dB a fade ends at: below, at and above the volume of
\* the receiver
FadeTargets == {-42, -40, -39}

NextVolume ==
    \/ /\ pc[Caller] = "idle"
       /\ \E v \in Volumes : async_set_volume(Caller, v)
    \/ /\ pc[Caller] = "idle"
       /\ \E f \in FadeTargets : async_volume_fade(Caller, f)
    \/ async_volume_fade_start(Caller)
    \/ async_volume_fade_step(Caller)
    \/ request_done(Caller)
    \/ Receiver(Caller)
    \/ /\ pc[Caller] = "done"
       /\ async_get_volume(Reader)
    \/ async_get_volume_done(Reader)
    \/ Receiver(Reader)

SpecVolume == InitVolume /\ [][NextVolume]_vars

-----------------------------------------------------------------------------
(* The coordinator's poll cycle (coordinator.py).  Volumes are in           *)
(* hundredths of a dB; the normalised volume is a fraction <<num, den>>.    *)

MIN_VOLUME == -8000
MAX_VOLUME == 1500
VOLUME_RANGE == MAX_VOLUME - MIN_VOLUME

\* min_max(num/den, 0, 1)
min_max(num, den) ==
    IF num < 0 THEN <<0, den>>
    ELSE IF num > den THEN <<den, den>>
    ELSE <<num, den>>

\* BasicStatusGet wrapped in the zone
BasicStatusReq(z) == Request("GET", z, "Basic_Status", GetParam)

\* the BasicStatus namedtuple ("on volume mute input") that
\* async_get_basic_status makes of the response
BasicStatus(val) ==
    [ on |-> (val.power = "On"),
      volume |-> PyFloat(val.volume) * 10,
      mute |-> (val.mute = "On"),
      input |-> val.input ]

\* the attributes _async_update_data reads of the BasicStatus, in order
BasicStatusReads == <<"on", "mute", "volume", "input_source", "surround_program">>

\* reading an attribute that a namedtuple does not have raises AttributeError
ReadsFail(tuple, names) == \E i \in 1..Len(names) : names[i] \notin DOMAIN tuple

\* _async_update_data up to its first await; without a session (self._rxv
\* is None) the call of async_get_basic_status raises AttributeError, which
\* the except clause turns into UpdateFailed
async_update_data(t) ==
    /\ Enter(t, "_async_update_data", None)
    /\ IF ~coord.rxv
       THEN End(t, Raised("UpdateFailed"))
       ELSE Await(t, "basic_status", BasicStatusReq(zone))
    /\ UNCHANGED <<coord, store, desc, devinfo, zone, ctrls, zresult, rx, loc>>

\* _async_update_data once async_get_basic_status has returned: is_on, muted
\* and volume are computed, then the reads of input_source and
\* surround_program raise AttributeError, which the except clause turns into
\* UpdateFailed; with those attributes the cycle would go on to the play
\* status.
async_update_data_basic(t) ==
    /\ Resumed(t, "_async_update_data", "basic_status")
    /\ LET basic_status == BasicStatus(resp[t].val) IN
       /\ loc' = [loc EXCEPT ![t] =
                     [ is_on |-> basic_status.on,
                       muted |-> basic_status.mute,
                       volume |-> min_max(basic_status.volume - MIN_VOLUME, VOLUME_RANGE) ]]
       /\ IF ReadsFail(basic_status, BasicStatusReads)
          THEN End(t, Raised("UpdateFailed"))
          ELSE Await(t, "play_status", InputReq("GET", zone, GetParam))
    /\ UNCHANGED <<coord, store, desc, devinfo, zone, ctrls, zresult, rx, op, arg, hist>>

\* _async_update_data when a request of the cycle is refused: the
\* ResponseException of _async_request is caught by "except Exception" and
\* turned into UpdateFailed
async_update_data_failed(t) ==
    /\ op[t] = "_async_update_data"
    /\ pc[t] \notin {"idle", "done"}
    /\ resp[t] # NoResp
    /\ ~RcOk(resp[t].rc)
    /\ End(t, Raised("UpdateFailed"))
    /\ UNCHANGED <<coord, store, desc, devinfo, zone, ctrls, zresult, rx, op, arg, loc, hist>>

\* The host's update coordinator ends the cycle: it publishes the snapshot
\* that _async_update_data returned, and on UpdateFailed keeps the one it has.
coordinator_refresh_done(t) ==
    /\ op[t] = "_async_update_data"
    /\ pc[t] = "done"
    /\ coord' = [coord EXCEPT
                     !.data = IF result[t].kind = "return" THEN result[t].val ELSE @,
                     !.ok = (result[t].kind = "return"),
                     !.cycles = @ + 1]
    /\ pc' = [pc EXCEPT ![t] = "idle"]
    /\ op' = [op EXCEPT ![t] = None]
    /\ loc' = [loc EXCEPT ![t] = NoLoc]
    /\ result' = [result EXCEPT ![t] = NoResult]
    /\ sent' = [sent EXCEPT ![t] = <<>>]
    /\ hist' = [hist EXCEPT ![t] = NoHist]
    /\ UNCHANGED <<store, desc, devinfo, zone, ctrls, zresult, rx, arg, req, resp>>

-----------------------------------------------------------------------------
(* The coordinator's setup and commands (coordinator.py).  The session of    *)
(* the coordinator is the one that its async_setup constructs with           *)
(* RXV(self.hass, device, self._base_url): the restored record goes to the   *)
(* parameter host, so the session has no record (self._device is None) and   *)
(* is on Main_Zone, and nothing of the coordinator gives it one.             *)

\* what the store of the coordinator's info id holds: nothing, a record
\* without control_url (the fields of rxv.RXVDeviceinfo) or a record with
\* every field of types.RXVDeviceInfo
HostStored == {"None", "RXVDeviceinfo", "RXVDeviceInfo"}

\* YamahaCoordinator.async_setup up to its await of store.async_load()
coordinator_async_setup(t) ==
    /\ Enter(t, "coordinator.async_setup", None)
    /\ pc' = [pc EXCEPT ![t] = "store_load"]
    /\ UNCHANGED <<coord, store, desc, devinfo, zone, ctrls, zresult, rx, loc,
                   req, resp, result, sent>>

\* config_entry.data[CONF_BASE_URL], kept by the coordinator as _base_url
BaseUrl == "192.168.1.5"

\* the store has answered restored: RXVDeviceInfo(**restored) raises
\* TypeError for None and for a record without control_url; else the session
\* is constructed by RXV(self.hass, device, self._base_url), which binds the
\* record to host and the base url to entry_id (no store handle, no record),
\* and self._rxv.get_inputs() (line 107) raises AttributeError on its missing
\* record, before the source list, the sound-mode list and the icon are built
coordinator_async_setup_loaded(t, restored) ==
    /\ op[t] = "coordinator.async_setup"
    /\ pc[t] = "store_load"
    /\ IF restored # "RXVDeviceInfo"
       THEN /\ End(t, Raised("TypeError"))
            /\ UNCHANGED <<coord, store, devinfo, zone>>
       ELSE /\ coord' = [coord EXCEPT !.rxv = TRUE]
            /\ store' = [store EXCEPT !.entry_id = BaseUrl, !.handle = FALSE]
            /\ devinfo' = NoDevice
            /\ zone' = "Main_Zone"
            /\ End(t, Raised("AttributeError"))
    /\ UNCHANGED <<desc, ctrls, zresult, rx, op, arg, loc, hist>>

\* a method of the coordinator raises AttributeError before any request
HostAttributeError(t, o, a) ==
    /\ Enter(t, o, a)
    /\ End(t, Raised("AttributeError"))
    /\ UNCHANGED <<coord, store, desc, devinfo, zone, ctrls, zresult, rx, loc>>

\* a method of the coordinator that awaits one PUT of its session and
\* returns None; without a session the attribute of None raises
HostPut(t, o, a, r) ==
    IF ~coord.rxv THEN HostAttributeError(t, o, a)
    ELSE /\ Enter(t, o, a)
         /\ Await(t, "last", r)
         /\ UNCHANGED <<coord, store, desc, devinfo, zone, ctrls, zresult, rx, loc>>

\* YamahaCoordinator.async_turn_on(): RXV.async_turn_on_off(True)
coordinator_async_turn_on(t) ==
    HostPut(t, "coordinator.async_turn_on", None, PowerReq("PUT", zone, "On"))

\* YamahaCoordinator.async_turn_off(): RXV.async_turn_on_off(False)
coordinator_async_turn_off(t) ==
    HostPut(t, "coordinator.async_turn_off", None, PowerReq("PUT", zone, "Standby"))

\* YamahaCoordinator.async_mute_volume(mute): RXV.async_set_mute(bool(mute))
coordinator_async_mute_volume(t, mute) ==
    HostPut(t, "coordinator.async_mute_volume", mute,
            MuteReq("PUT", zone, IF mute THEN "On" ELSE "Off"))

\* min_max(volume * VOLUME_RANGE + MIN_VOLUME, MIN_VOLUME, MAX_VOLUME) for a
\* volume written in hundredths (50 stands for 0.5), in hundredths of a dB
ReceiverVol(volume) ==
    LET v == (volume * VOLUME_RANGE) \div 100 + MIN_VOLUME IN
    IF v < MIN_VOLUME THEN MIN_VOLUME
    ELSE IF v > MAX_VOLUME THEN MAX_VOLUME
    ELSE v

\* YamahaCoordinator.async_set_volume(volume): RXV.async_set_volume of the
\* scaled and clamped volume
coordinator_async_set_volume(t, volume) ==
    HostPut(t, "coordinator.async_set_volume", volume,
            VolumeReq("PUT", zone,
                      [val |-> VolumeVal(ReceiverVol(volume)), exp |-> 1, unit |-> "dB"]))

\* YamahaCoordinator.async_select_source(source): _source_names is empty, so
\* the reverse mapping keeps source; the assert of RXV.async_set_input reads
\* self._device.inputs_source
coordinator_async_select_source(t, source) ==
    IF ~coord.rxv \/ devinfo = NoDevice
    THEN HostAttributeError(t, "coordinator.async_select_source", source)
    ELSE async_set_input(t, source)

\* YamahaCoordinator.async_select_sound_mode(sound_mode): _reverse_mode_names
\* is assigned at line 111 of async_setup, which no run reaches, so reading
\* it raises AttributeError
coordinator_async_select_sound_mode(t, sound_mode) ==
    HostAttributeError(t, "coordinator.async_select_sound_mode", sound_mode)

\* YamahaCoordinator.async_play(media_id) and async_play_media(media_id):
\* RXV.async_set_net_radio(media_id), whose async_set_input reads
\* self._device.inputs_source in its assert
coordinator_async_play_media(t, media_id) ==
    IF ~coord.rxv \/ devinfo = NoDevice
    THEN HostAttributeError(t, "coordinator.async_play_media", media_id)
    ELSE async_set_net_radio(t, media_id)

\* the playback methods of the coordinator and the action each passes to
\* RXV._async_playback_control
HostPlayback ==
    [m \in {"async_pause", "async_stop", "async_previous_track", "async_next_track"} |->
        CASE m = "async_pause" -> "Pause"
          [] m = "async_stop" -> "Stop"
          [] m = "async_previous_track" -> "Skip Rev"
          [] OTHER -> "Skip Fwd"]

\* YamahaCoordinator.async_pause / async_stop / async_previous_track /
\* async_next_track up to the first await: _async_get_src_name() asks the
\* receiver for the current input
coordinator_async_playback(t, method) ==
    IF ~coord.rxv THEN HostAttributeError(t, "coordinator.playback", method)
    ELSE /\ Enter(t, "coordinator.playback", method)
         /\ Await(t, "host_input", InputReq("GET", zone, GetParam))
         /\ UNCHANGED <<coord, store, desc, devinfo, zone, ctrls, zresult, rx, loc>>

\* the current input is known: "cur_input not in self._device.inputs_source"
\* raises AttributeError on the missing record
coordinator_async_playback_input(t) ==
    /\ Resumed(t, "coordinator.playback", "host_input")
    /\ IF devinfo = NoDevice THEN End(t, Raised("AttributeError"))
       ELSE LET cur_input == resp[t].val
                d == PlaybackDecision(zone, cur_input)
            IN CASE d = "return" -> End(t, Returned(None))
                 [] d = "raise" -> End(t, Raised("PlaybackUnavailable"))
                 [] OTHER -> Await(t, "last",
                                   PlayControlReq(GetSrcName(zone, cur_input)[1],
                                                  HostPlayback[arg[t]]))
    /\ UNCHANGED <<coord, store, desc, devinfo, zone, ctrls, zresult, rx, op, arg, loc, hist>>

-----------------------------------------------------------------------------
(* Specification of the coordinator: up to MaxCycles poll cycles against a  *)
(* receiver that answers or refuses the requests.                           *)

MaxCycles == 3

\* texts of Val the receiver reports: below and above the normalised range,
\* and within it
RxVolumes == { <<"-", "8", "0", "5">>, <<"-", "4", "0", "0">>, <<"0">>, <<"1", "6", "5">> }

InitCoordinator ==
    /\ devinfo = NoDevice
    /\ zone = "Main_Zone"
    /\ ctrls = <<>>
    /\ zresult = NoZoneResult
    /\ \E p \in {"On", "Standby"}, m \in {"On", "Off"}, v \in RxVolumes, i \in {"HDMI1", "SERVER"} :
          rx = [k \in RxKeys |->
                   IF k = zone
                   THEN [RxDefault EXCEPT !.power = p, !.mute = m, !.volume = v, !.input = i]
                   ELSE RxDefault]
    /\ coord = [NoCoord EXCEPT !.rxv = TRUE]
    /\ store = NoStore
    /\ desc = NoDesc
    /\ InitTasks

NextCoordinator ==
    \/ /\ coord.cycles < MaxCycles
       /\ async_update_data(Caller)
    \/ async_update_data_basic(Caller)
    \/ async_update_data_failed(Caller)
    \/ coordinator_refresh_done(Caller)
    \/ Receiver(Caller)
    \/ ReceiverError(Caller)

SpecCoordinator == InitCoordinator /\ [][NextCoordinator]_vars

-----------------------------------------------------------------------------
(* Descriptor documents.  An element that find() looks for is a record      *)
(* [elem, text]: elem says whether the element is there, text is its text,  *)
(* NoneText for an element without text.  The device descriptor is the      *)
(* empty document, a document that does not parse, or a parsed document     *)
(* [device, udn, manufacturer, modelName, friendlyName, serialNumber,       *)
(* icons], device saying whether the device node is there.  The receiver   *)
(* also holds what it answers to the requests of its inputs (a list of      *)
(* <<Param, Src_Name>>) and of its scenes (a list of <<tag, text>>).        *)

EmptyDoc == [kind |-> "empty"]
BadDoc == [kind |-> "unparsable"]

Elem(text) == [elem |-> TRUE, text |-> text]
NoElem == [elem |-> FALSE, text |-> NoneText]

IsDigitChar(c) == \E d \in 0..9 : DigitChar(d) = c

\* int(text) of an element text: TypeError for None, ValueError for a text
\* that is not a number
PyIntOfText(text) ==
    IF text = NoneText THEN [kind |-> "TypeError", val |-> 0]
    ELSE IF \A i \in 1..Len(text) : IsDigitChar(text[i])
         THEN [kind |-> "ok", val |-> NatOfDigits(text)]
         ELSE [kind |-> "ValueError", val |-> 0]

\* the width _build_icon_list gives an icon: 0 without a width element, else
\* int(width_elem.text) inside "try ... except (ValueError, AttributeError):
\* pass", which leaves 0 on ValueError and lets any other exception out
IconWidth(icon) ==
    IF ~icon.width.elem THEN [kind |-> "ok", val |-> 0]
    ELSE LET w == PyIntOfText(icon.width.text) IN
         IF w.kind \in {"ValueError", "AttributeError"} THEN [kind |-> "ok", val |-> 0]
         ELSE w

\* icon_data: the (width, url) pairs of the icons that have a url element,
\* in document order; the exception of the first width that raises one
RECURSIVE IconData(_, _, _)
IconData(icons, i, icon_data) ==
    IF i > Len(icons) THEN [kind |-> "ok", val |-> icon_data]
    ELSE IF ~icons[i].url.elem THEN IconData(icons, i + 1, icon_data)
    ELSE LET w == IconWidth(icons[i]) IN
         IF w.kind # "ok" THEN [kind |-> w.kind, val |-> <<>>]
         ELSE IconData(icons, i + 1, Append(icon_data, <<w.val, icons[i].url.text>>))

\* list.sort(key=lambda x: x[0], reverse=True) is stable: a pair goes behind
\* every pair of a greater or equal width
InsertByWidth(sorted, pair) ==
    LET k == Cardinality({j \in 1..Len(sorted) : sorted[j][1] >= pair[1]})
    IN SubSeq(sorted, 1, k) \o <<pair>> \o SubSeq(sorted, k + 1, Len(sorted))

RECURSIVE SortByWidth(_, _, _)
SortByWidth(icon_data, i, sorted) ==
    IF i > Len(icon_data) THEN sorted
    ELSE SortByWidth(icon_data, i + 1, InsertByWidth(sorted, icon_data[i]))

\* RXV._build_icon_list(desc_xml): the urls by descending width, or the
\* exception
build_icon_list(icons) ==
    LET d == IconData(icons, 1, <<>>) IN
    IF d.kind # "ok" THEN d
    ELSE LET sorted == SortByWidth(d.val, 1, <<>>) IN
         [kind |-> "ok", val |-> [j \in 1..Len(sorted) |-> sorted[j][2]]]

\* c.lower() for the letters of "uuid"
Lower(c) == CASE c = "U" -> "u" [] c = "I" -> "i" [] c = "D" -> "d" [] OTHER -> c

UuidPrefix == <<"u", "u", "i", "d", ":">>

\* characters of the class [A-Za-z0-9\-] that the descriptors of the model use
UuidChars == {"a", "b", "c", "d", "e", "f", "-"} \cup {DigitChar(d) : d \in 0..9}

\* utils.get_id_from_udn(udn): the part behind "uuid:" (any case), None for
\* None and for a text of another form
get_id_from_udn(udn) ==
    IF udn = NoneText THEN NoneText
    ELSE IF /\ Len(udn) > Len(UuidPrefix)
            /\ [i \in 1..Len(UuidPrefix) |-> Lower(udn[i])] = UuidPrefix
            /\ \A i \in (Len(UuidPrefix) + 1)..Len(udn) : udn[i] \in UuidChars
         THEN SubSeq(udn, Len(UuidPrefix) + 1, Len(udn))
         ELSE NoneText

\* element.text of the element that find() returned: AttributeError when
\* find() returned None
TextOf(e) == IF e.elem THEN [kind |-> "ok", val |-> e.text]
             ELSE [kind |-> "AttributeError", val |-> NoneText]

\* the elements below the device node: find() of a path through a missing
\* device node returns None
Below(doc, name) == IF doc.device THEN doc[name] ELSE NoElem

\* the part of _async_discover_device_info between the descriptor's text and
\* the request of the unit descriptor: the locals it leaves, or the
\* exception it raises
ParseDeviceDesc(doc) ==
    IF doc = EmptyDoc THEN [kind |-> "DescException"]
    ELSE IF doc = BadDoc THEN [kind |-> "ParseError"]
    ELSE LET udn == TextOf(Below(doc, "udn"))
             texts == [n \in {"manufacturer", "modelName", "friendlyName", "serialNumber"} |->
                          TextOf(Below(doc, n))]
             icons == build_icon_list(IF doc.device THEN doc.icons ELSE <<>>)
         IN IF udn.kind # "ok" THEN [kind |-> udn.kind]
            ELSE IF \E n \in DOMAIN texts : texts[n].kind # "ok"
                 THEN [kind |-> "AttributeError"]
            ELSE IF icons.kind # "ok" THEN [kind |-> icons.kind]
            ELSE [ kind |-> "ok",
                   device_id |-> get_id_from_udn(udn.val),
                   manufacturer |-> texts["manufacturer"].val,
                   model_name |-> texts["modelName"].val,
                   friendly_name |-> texts["friendlyName"].val,
                   serial_number |-> texts["serialNumber"].val,
                   icons |-> icons.val ]

\* the Subunit elements of the unit descriptor of the receiver of
\* DefaultDevice: the zone's tag, whether it has a Setup menu, and what the
\* menu holds (a Straight entry, a Direct entry, the programs)
Subunits ==
    << [tag |-> "Main_Zone", setup |-> TRUE, straight |-> TRUE, direct |-> TRUE,
        programs |-> <<"Hall", "Jazz">>],
       [tag |-> "Zone_2", setup |-> TRUE, straight |-> TRUE, direct |-> FALSE,
        programs |-> <<"Hall">>],
       [tag |-> "Zone_3", setup |-> FALSE, straight |-> FALSE, direct |-> FALSE,
        programs |-> <<>>] >>

\* RXV._build_zones
build_zones(subunits) == [i \in 1..Len(subunits) |-> subunits[i].tag]

\* the list _build_surround_programs makes for a zone with a Setup menu
SurroundProgramsOf(subunit) ==
    (IF subunit.straight THEN <<STRAIGHT>> ELSE <<>>)
        \o (IF subunit.direct THEN <<DIRECT>> ELSE <<>>)
        \o subunit.programs

\* RXV._build_surround_programs: the zones without a Setup menu are skipped
build_surround_programs(subunits) ==
    [z \in {subunits[i].tag : i \in {j \in 1..Len(subunits) : subunits[j].setup}} |->
        LET i == CHOOSE i \in 1..Len(subunits) : subunits[i].tag = z /\ subunits[i].setup IN
        SurroundProgramsOf(subunits[i])]

\* the unit descriptor of the receiver of DefaultDevice
UnitDoc ==
    [ kind |-> "ok",
      subunits |-> Subunits,
      commands |-> DefaultDevice.commands,
      source_play_methods |-> DefaultDevice.source_play_methods,
      source_cursor_actions |-> DefaultDevice.source_cursor_actions ]

\* the part of _async_discover_device_info between the unit descriptor's
\* text and the request of the inputs: what the _build_ functions find
ParseUnitDesc(doc) ==
    IF doc = EmptyDoc THEN [kind |-> "DescException"]
    ELSE IF doc = BadDoc THEN [kind |-> "ParseError"]
    ELSE [ kind |-> "ok",
           zones |-> build_zones(doc.subunits),
           commands |-> doc.commands,
           zone_surround_programs |-> build_surround_programs(doc.subunits),
           source_play_methods |-> doc.source_play_methods,
           source_cursor_actions |-> doc.source_cursor_actions ]

\* a list as a Python value that may be None
PyNone == [isNone |-> TRUE, items |-> <<>>]
PyList(items) == [isNone |-> FALSE, items |-> items]

\* RXV.get_surround_programs(): self._device.zone_surround_programs.get(self.zone)
get_surround_programs_value(z) ==
    IF z \in DOMAIN devinfo.zone_surround_programs
    THEN PyList(devinfo.zone_surround_programs[z])
    ELSE PyNone

\* get_surround_programs() on the session
get_surround_programs ==
    /\ zresult' = IF devinfo = NoDevice
                  THEN [op |-> "get_surround_programs", who |-> 0, kind |-> "raise",
                        val |-> "AttributeError", zone0 |-> zone]
                  ELSE [op |-> "get_surround_programs", who |-> 0, kind |-> "return",
                        val |-> get_surround_programs_value(zone), zone0 |-> zone]
    /\ UNCHANGED <<coord, store, desc, devinfo, zone, ctrls, rx, op, arg, pc, loc, req, resp, result, sent, hist>>

\* dict(zip(params, src_names)): a later pair of the same key replaces an
\* earlier one
DictOfPairs(pairs) ==
    [k \in {pairs[i][1] : i \in 1..Len(pairs)} |->
        LET last == CHOOSE i \in 1..Len(pairs) :
                        /\ pairs[i][1] = k
                        /\ \A j \in (i + 1)..Len(pairs) : pairs[j][1] # k
        IN pairs[last][2]]

\* str.replace(a, b) for single characters
ReplaceChar(text, a, b) == [i \in 1..Len(text) |-> IF text[i] = a THEN b ELSE text[i]]

\* _async_get_scenes: scenes[scene.text] = scene.tag.replace("_", " ")
ScenesOf(pairs) ==
    DictOfPairs([i \in 1..Len(pairs) |-> <<pairs[i][2], ReplaceChar(pairs[i][1], "_", " ")>>])

\* RXVDeviceinfo(...) of the locals of _async_discover_device_info
DeviceRecord(d, u, inputs, scenes) ==
    [ device_id |-> d.device_id,
      friendly_name |-> d.friendly_name,
      manufacturer |-> d.manufacturer,
      model_name |-> d.model_name,
      serial_number |-> d.serial_number,
      icons |-> d.icons,
      zones |-> u.zones,
      commands |-> u.commands,
      zone_surround_programs |-> u.zone_surround_programs,
      source_play_methods |-> u.source_play_methods,
      source_cursor_actions |-> u.source_cursor_actions,
      inputs_source |-> inputs,
      scenes_number |-> scenes ]

-----------------------------------------------------------------------------
(* async_setup.  store is [entry_id, handle, saved, writes]: the entry id of *)
(* session or None, whether the session has made its store object           *)
(* (self._store), and the record the store holds, NoDevice when it holds    *)
(* none, and the number of async_save calls it has seen.  desc.hits is the  *)
(* number of times the device descriptor has been fetched.                  *)

\* self._session.get(url) of a descriptor
DescReq(doc) == [cmd |-> "HTTP_GET", top |-> None, path |-> doc, val |-> None]

\* The receiver's web server answers with the text of the descriptor.
DescServer(t) ==
    /\ req[t] # NoReq
    /\ req[t].cmd = "HTTP_GET"
    /\ resp' = [resp EXCEPT ![t] = [rc |-> "http", val |-> desc[req[t].path]]]
    /\ req' = [req EXCEPT ![t] = NoReq]
    /\ desc' = [desc EXCEPT !.hits = IF req[t].path = "device" THEN @ + 1 ELSE @]
    /\ UNCHANGED <<coord, store, devinfo, zone, ctrls, zresult, rx, op, arg, pc, loc, result, sent, hist>>

\* (mutant) a discovery that raises leaves the locals it had gathered
AssignedDevicePartial(dev, outcome) ==
    IF outcome.kind = "return" THEN outcome.val ELSE [partial |-> outcome.val]

\* self._device = await self._async_discover_device_info(): the assignment
\* takes place when the discovery returns
AssignedDevice(dev, outcome) == IF outcome.kind = "return" THEN outcome.val ELSE dev

\* (mutant) async_setup discovers whether or not it has a record
DiscoverAlways(t, dev) == Await(t, "device_desc", DescReq("device"))

\* "if self._device is None": discover, else async_setup is over
DiscoverIfUnset(t, dev) ==
    IF dev = NoDevice
    THEN Await(t, "device_desc", DescReq("device"))
    ELSE End(t, Returned(None))

\* async_setup() up to its first await
async_setup(t) ==
    /\ Enter(t, "async_setup", None)
    /\ IF ~store.handle /\ store.entry_id # None
       THEN /\ store' = [store EXCEPT !.handle = TRUE]
            /\ pc' = [pc EXCEPT ![t] = "store_load"]
            /\ UNCHANGED <<req, resp, result, sent>>
       ELSE /\ DiscoverIfUnset(t, devinfo)
            /\ UNCHANGED store
    /\ UNCHANGED <<coord, desc, devinfo, zone, ctrls, zresult, rx, loc>>

\* self._store.async_load() has returned
async_setup_loaded(t) ==
    /\ op[t] = "async_setup"
    /\ pc[t] = "store_load"
    /\ LET restored == store.saved
           dev == IF restored # NoDevice THEN restored ELSE devinfo
       IN /\ devinfo' = dev
          /\ DiscoverIfUnset(t, dev)
    /\ UNCHANGED <<coord, store, desc, zone, ctrls, zresult, rx, op, arg, loc, hist>>

\* the device descriptor has arrived
discover_device_desc(t) ==
    /\ op[t] = "async_setup"
    /\ pc[t] = "device_desc"
    /\ resp[t] # NoResp
    /\ LET d == ParseDeviceDesc(resp[t].val) IN
       IF d.kind # "ok"
       THEN /\ End(t, Raised(d.kind))
            /\ devinfo' = AssignedDevice(devinfo, Raised(d.kind))
            /\ UNCHANGED loc
       ELSE /\ loc' = [loc EXCEPT ![t] = [d |-> d]]
            /\ Await(t, "unit_desc", DescReq("unit"))
            /\ UNCHANGED devinfo
    /\ UNCHANGED <<coord, store, desc, zone, ctrls, zresult, rx, op, arg, hist>>

\* the unit descriptor has arrived
discover_unit_desc(t) ==
    /\ op[t] = "async_setup"
    /\ pc[t] = "unit_desc"
    /\ resp[t] # NoResp
    /\ LET u == ParseUnitDesc(resp[t].val) IN
       IF u.kind # "ok"
       THEN /\ End(t, Raised(u.kind))
            /\ devinfo' = AssignedDevice(devinfo, Raised(u.kind))
            /\ UNCHANGED loc
       ELSE /\ loc' = [loc EXCEPT ![t] = [d |-> loc[t].d, u |-> u]]
            /\ Await(t, "inputs", Request("GET", zone, "Input/Input_Sel_Item", GetParam))
            /\ UNCHANGED devinfo
    /\ UNCHANGED <<coord, store, desc, zone, ctrls, zresult, rx, op, arg, hist>>

\* _async_get_inputs has its answer
discover_inputs(t) ==
    /\ Resumed(t, "async_setup", "inputs")
    /\ loc' = [loc EXCEPT ![t] =
                  [d |-> loc[t].d, u |-> loc[t].u, inputs |-> DictOfPairs(resp[t].val)]]
    /\ Await(t, "scenes", Request("GET", zone, "Config", GetParam))
    /\ UNCHANGED <<coord, store, desc, devinfo, zone, ctrls, zresult, rx, op, arg, hist>>

\* _async_get_scenes has its answer: the discovery returns the record,
\* async_setup assigns it and saves it when the session has a store
discover_scenes(t) ==
    /\ Resumed(t, "async_setup", "scenes")
    /\ LET record == DeviceRecord(loc[t].d, loc[t].u, loc[t].inputs, ScenesOf(resp[t].val)) IN
       devinfo' = AssignedDevice(devinfo, Returned(record))
    /\ IF store.handle
       THEN /\ pc' = [pc EXCEPT ![t] = "store_save"]
            /\ resp' = [resp EXCEPT ![t] = NoResp]
            /\ UNCHANGED <<req, result, sent>>
       ELSE End(t, Returned(None))
    /\ UNCHANGED <<coord, store, desc, zone, ctrls, zresult, rx, op, arg, loc, hist>>

\* self._store.async_save(asdict(self._device)) has returned
async_setup_saved(t) ==
    /\ op[t] = "async_setup"
    /\ pc[t] = "store_save"
    /\ store' = [store EXCEPT !.saved = devinfo, !.writes = @ + 1]
    /\ End(t, Returned(None))
    /\ UNCHANGED <<coord, desc, devinfo, zone, ctrls, zresult, rx, op, arg, loc, hist>>

\* a request of the discovery is refused: the ResponseException leaves
\* _async_discover_device_info and async_setup
async_setup_failed(t) ==
    /\ op[t] = "async_setup"
    /\ pc[t] \in {"inputs", "scenes"}
    /\ resp[t] # NoResp
    /\ ~RcOk(resp[t].rc)
    /\ End(t, Raised("ResponseException"))
    /\ devinfo' = AssignedDevice(devinfo, Raised("ResponseException"))
    /\ UNCHANGED <<coord, store, desc, zone, ctrls, zresult, rx, op, arg, loc, hist>>

MaxIcons == 3
MaxDiscoveries == 2

\* the texts of the descriptors of the model
Text(str) == <<str>>
UdnText == <<"u", "U", "i", "d", ":", "a", "1", "-", "f">>

WidthElems ==
    {NoElem, Elem(NoneText), Elem(<<"a", "b", "c">>),
     Elem(<<"1", "6">>), Elem(<<"3", "2">>), Elem(<<"6", "4">>)}

\* the icon lists of up to MaxIcons icons; the url of an icon that has one
\* names its place in the document
IconLists ==
    UNION {[1..n -> WidthElems \X BOOLEAN] : n \in 0..MaxIcons}

IconsOf(list) ==
    [i \in 1..Len(list) |->
        [width |-> list[i][1],
         url |-> IF list[i][2] THEN Elem(<<"u", DigitChar(i)>>) ELSE NoElem]]

\* a device descriptor with every node and the given icons
DeviceDoc(icons) ==
    [ kind |-> "ok", device |-> TRUE,
      udn |-> Elem(UdnText),
      manufacturer |-> Elem(Text("Yamaha")),
      modelName |-> Elem(Text("RX-V")),
      friendlyName |-> Elem(Text("Living")),
      serialNumber |-> Elem(NoneText),
      icons |-> icons ]

DefaultIcons ==
    << [width |-> Elem(<<"3", "2">>), url |-> Elem(<<"u", "1">>)],
       [width |-> Elem(<<"6", "4">>), url |-> Elem(<<"u", "2">>)] >>

\* device descriptors with a missing node, a UDN of another form, no text
DeviceDocs ==
    {EmptyDoc, BadDoc, DeviceDoc(DefaultIcons),
     [DeviceDoc(DefaultIcons) EXCEPT !.device = FALSE],
     [DeviceDoc(DefaultIcons) EXCEPT !.udn = NoElem],
     [DeviceDoc(DefaultIcons) EXCEPT !.udn = Elem(<<"x", "y">>)],
     [DeviceDoc(DefaultIcons) EXCEPT !.serialNumber = NoElem]}

InputLists ==
    { << <<"HDMI1", None>>, <<"SERVER", "SERVER">>, <<"NET RADIO", "NET_RADIO">> >>,
      << <<"AV1", None>>, <<"AV1", "AV_1">> >>,
      <<>> }

SceneLists ==
    { << <<<<"S", "c", "e", "n", "e", "_", "1">>, "BD/DVD Movie Viewing">>,
         <<<<"S", "c", "e", "n", "e", "_", "2">>, "TV Viewing">> >>,
      <<>> }

\* the record an earlier setup saved
SavedDevice ==
    DeviceRecord(ParseDeviceDesc(DeviceDoc(DefaultIcons)), ParseUnitDesc(UnitDoc),
                 DefaultDevice.inputs_source, DefaultDevice.scenes_number)

\* the session before async_setup, in front of a receiver whose descriptors
\* and answers vary, with or without a store that holds a record
InitSetup ==
    /\ devinfo = NoDevice
    /\ zone = "Main_Zone"
    /\ ctrls = <<>>
    /\ zresult = NoZoneResult
    /\ rx = [k \in RxKeys |-> RxDefault]
    /\ coord = NoCoord
    /\ \/ /\ store = NoStore
          /\ \E list \in IconLists :
                desc = [device |-> DeviceDoc(IconsOf(list)), unit |-> UnitDoc,
                        inputs |-> <<>>, scenes |-> <<>>, hits |-> 0]
       \/ /\ \E id \in {None, "e1"}, saved \in {NoDevice, SavedDevice} :
                store = [entry_id |-> id, handle |-> FALSE, saved |-> saved, writes |-> 0]
          /\ \E d \in DeviceDocs, u \in {EmptyDoc, BadDoc, UnitDoc},
                i \in InputLists, sc \in SceneLists :
                desc = [device |-> d, unit |-> u, inputs |-> i, scenes |-> sc, hits |-> 0]
    /\ InitTasks

NextSetup ==
    \/ /\ desc.hits < MaxDiscoveries
       /\ async_setup(Caller)
    \/ async_setup_loaded(Caller)
    \/ discover_device_desc(Caller)
    \/ discover_unit_desc(Caller)
    \/ discover_inputs(Caller)
    \/ discover_scenes(Caller)
    \/ async_setup_saved(Caller)
    \/ async_setup_failed(Caller)
    \/ DescServer(Caller)
    \/ Receiver(Caller)
    \/ ReceiverError(Caller)
    \/ Leave(Caller)

SpecSetup == InitSetup /\ [][NextSetup]_vars

\* A session constructed on any zone of the receiver of DefaultDevice, its
\* setup, and the reads of its surround programs.
InitPrograms ==
    /\ devinfo = NoDevice
    /\ zone \in {Subunits[i].tag : i \in 1..Len(Subunits)}
    /\ ctrls = <<>>
    /\ zresult = NoZoneResult
    /\ rx = [k \in RxKeys |-> RxDefault]
    /\ coord = NoCoord
    /\ \E id \in {None, "e1"}, saved \in {NoDevice, SavedDevice} :
          store = [entry_id |-> id, handle |-> FALSE, saved |-> saved, writes |-> 0]
    /\ \E i \in InputLists :
          desc = [device |-> DeviceDoc(DefaultIcons), unit |-> UnitDoc,
                  inputs |-> i, scenes |-> <<>>, hits |-> 0]
    /\ InitTasks

NextPrograms ==
    \/ NextSetup
    \/ /\ pc[Caller] = "idle"
       /\ get_surround_programs

SpecPrograms == InitPrograms /\ [][NextPrograms]_vars

-----------------------------------------------------------------------------
(* Two tasks of the host's event loop on one session.  A coroutine gives up *)
(* the loop at each await of _async_request, so the steps of the two tasks  *)
(* interleave at the requests; neither rxv.py nor coordinator.py holds a    *)
(* lock around them.                                                        *)

\* the steps of a command of task t on a set-up session, its surround
\* programs taken from names
Command(t, names) ==
    \/ /\ pc[t] = "idle"
       /\ \E n \in names : async_set_surround_program(t, n)
    \/ async_set_surround_program_direct(t)
    \/ async_set_surround_program_put(t)
    \/ /\ pc[t] = "idle"
       /\ async_set_volume(t, -4050)
    \/ /\ pc[t] = "idle"
       /\ async_turn_on_off(t, FALSE)
    \/ /\ pc[t] = "idle"
       /\ async_set_mute(t, TRUE)
    \/ request_done(t)
    \/ request_done_response(t)
    \/ Leave(t)

\* Two callers of a set-up session.
InitConcurrent ==
    /\ devinfo = DefaultDevice
    /\ zone = "Main_Zone"
    /\ ctrls = <<>>
    /\ zresult = NoZoneResult
    /\ \E d \in BOOLEAN :
          rx = [k \in RxKeys |-> IF k = zone THEN RxZone("HDMI1", d, FALSE, "Jazz") ELSE RxDefault]
    /\ InitHost
    /\ InitTasks

NextConcurrent ==
    \/ Command(Caller, {STRAIGHT, "Hall"})
    \/ Command(Reader, {DIRECT})
    \/ \E t \in Tasks : Receiver(t)

SpecConcurrent == InitConcurrent /\ [][NextConcurrent]_vars

\* the steps of a poll cycle of task t
Poll(t) ==
    \/ /\ coord.cycles < MaxCycles
       /\ async_update_data(t)
    \/ async_update_data_basic(t)
    \/ coordinator_refresh_done(t)

\* volumes the host asks for, in hundredths: in and above 0..1
HostVolumes == {50, 150}

\* the steps of the setup and of the commands of the coordinator by task t
HostCommand(t) ==
    \/ /\ pc[t] = "idle"
       /\ coordinator_async_setup(t)
    \/ \E restored \in HostStored : coordinator_async_setup_loaded(t, restored)
    \/ /\ pc[t] = "idle"
       /\ coordinator_async_turn_on(t)
    \/ /\ pc[t] = "idle"
       /\ coordinator_async_turn_off(t)
    \/ /\ pc[t] = "idle"
       /\ \E mute \in BOOLEAN : coordinator_async_mute_volume(t, mute)
    \/ /\ pc[t] = "idle"
       /\ \E volume \in HostVolumes : coordinator_async_set_volume(t, volume)
    \/ /\ pc[t] = "idle"
       /\ coordinator_async_select_source(t, "SERVER")
    \/ /\ pc[t] = "idle"
       /\ coordinator_async_select_sound_mode(t, "Hall")
    \/ /\ pc[t] = "idle"
       /\ coordinator_async_play_media(t, AltPath(2))
    \/ /\ pc[t] = "idle"
       /\ \E m \in DOMAIN HostPlayback : coordinator_async_playback(t, m)
    \/ coordinator_async_playback_input(t)
    \/ request_done(t)
    \/ Leave(t)

\* The coordinator of a config entry: one task runs its setup and its
\* commands, the other its poll cycles, on the session of the coordinator.
InitCoordinatorTasks ==
    /\ devinfo = NoDevice
    /\ zone = "Main_Zone"
    /\ ctrls = <<>>
    /\ zresult = NoZoneResult
    /\ rx = [k \in RxKeys |-> RxDefault]
    /\ InitHost
    /\ InitTasks

NextCoordinatorTasks ==
    \/ HostCommand(Caller)
    \/ Poll(Reader)
    \/ \E t \in Tasks : Receiver(t)

SpecCoordinatorTasks == InitCoordinatorTasks /\ [][NextCoordinatorTasks]_vars

-----------------------------------------------------------------------------
(* The operations of a set-up session together: the commands and reads of   *)
(* specification Spec, the volume, zone_controllers and the zone setters,   *)
(* the synchronous ones called while no coroutine of the caller is          *)
(* suspended.                                                               *)

OpsZoneArgs == {"Main_Zone", "Zone_2"}

InitOps ==
    /\ devinfo = DefaultDevice
    /\ zone = "Main_Zone"
    /\ ctrls = <<>>
    /\ zresult = NoZoneResult
    /\ rx = [k \in RxKeys |-> RxDefault]
    /\ InitHost
    /\ InitTasks

NextOps ==
    \/ /\ pc[Caller] = "idle"
       /\ \/ zone_controllers
          \/ \E z \in OpsZoneArgs : set_zone(z)
          \/ \E i \in 1..Len(ctrls) : set_controller_zone(i, "Zone_2")
          \/ \E n \in {DIRECT, "Hall"} : async_set_surround_program(Caller, n)
          \/ async_get_surround_program(Caller)
          \/ async_set_input(Caller, "SERVER")
          \/ async_set_scene(Caller, "TV Viewing")
          \/ async_playback_control(Caller, "Play")
          \/ async_set_menu_cursor(Caller, "Up")
          \/ async_set_volume(Caller, -4050)
          \/ async_get_volume(Caller)
    \/ async_set_surround_program_direct(Caller)
    \/ async_set_surround_program_put(Caller)
    \/ async_get_surround_program_direct(Caller)
    \/ async_get_surround_program_result(Caller)
    \/ async_playback_control_input(Caller)
    \/ async_set_menu_cursor_input(Caller)
    \/ async_get_volume_done(Caller)
    \/ request_done(Caller)
    \/ request_done_response(Caller)
    \/ Receiver(Caller)
    \/ Leave(Caller)

SpecOps == InitOps /\ [][NextOps]_vars

-----------------------------------------------------------------------------
(* Source resolution: _async_get_src_name on sessions whose input mapping   *)
(* holds any of the labels of SrcLabels.                                    *)

\* _async_get_src_name(cur_input) up to its await: without an input it asks
\* the receiver for the current one
async_get_src_name(t, cur_input) ==
    /\ Enter(t, "_async_get_src_name", cur_input)
    /\ IF cur_input = None
       THEN Await(t, "get_input", InputReq("GET", zone, GetParam))
       ELSE /\ End(t, Returned(GetSrcName(zone, cur_input)))
    /\ UNCHANGED <<coord, store, desc, devinfo, zone, ctrls, zresult, rx, loc>>

\* the current input is known
async_get_src_name_input(t) ==
    /\ Resumed(t, "_async_get_src_name", "get_input")
    /\ End(t, Returned(GetSrcName(zone, resp[t].val)))
    /\ UNCHANGED <<coord, store, desc, devinfo, zone, ctrls, zresult, rx, op, arg, loc, hist>>

SrcLabels == {"HDMI1", "hdmi3", "Hdmi4", "HDM", "AV HDMI", "SERVER", "AV1"}

\* the internal source name the receiver gives for an input label
SrcNameOf(label) ==
    CASE label = "SERVER" -> "SERVER"
      [] label = "hdmi3" -> "HDMI_3"
      [] label = "AV HDMI" -> "AV_HDMI"
      [] OTHER -> None

InitSrc ==
    /\ \E labels \in SUBSET SrcLabels :
          devinfo = [DefaultDevice EXCEPT !.inputs_source = [l \in labels |-> SrcNameOf(l)]]
    /\ zone \in SessionZones
    /\ ctrls = <<>>
    /\ zresult = NoZoneResult
    /\ \E i \in {"HDMI1", "hdmi3", "SERVER"} :
          rx = [k \in RxKeys |-> IF k = zone THEN RxZone(i, FALSE, FALSE, "Hall") ELSE RxDefault]
    /\ InitHost
    /\ InitTasks

NextSrc ==
    \/ /\ pc[Caller] = "idle"
       /\ \E i \in SrcLabels \cup {None} : async_get_src_name(Caller, i)
    \/ async_get_src_name_input(Caller)
    \/ Receiver(Caller)
    \/ Leave(Caller)

SpecSrc == InitSrc /\ [][NextSrc]_vars

-----------------------------------------------------------------------------
(* Play status.  A Play_Info response is a function from tag names to       *)
(* elements [elem, text]; a text is a sequence of characters, the entity    *)
(* "&amp;" standing as one of them.                                         *)

ARTIST_OPTIONS == <<"Artist", "Program_Type">>
ALBUM_OPTIONS == <<"Album", "Radio_Text_A">>
SONG_OPTIONS == <<"Song", "Track", "Radio_Text_B">>
STATION_OPTIONS == <<"Station", "Program_Service">>

\* html.unescape(text)
Unescape(text) == [i \in 1..Len(text) |-> IF text[i] = "&amp;" THEN "&" ELSE text[i]]

\* str.strip(): without the blanks at both ends
RECURSIVE Strip(_)
Strip(text) ==
    IF text = <<>> THEN text
    ELSE IF Head(text) = " " THEN Strip(Tail(text))
    ELSE IF text[Len(text)] = " " THEN Strip(SubSeq(text, 1, Len(text) - 1))
    ELSE text

\* RXV.safe_get(doc, names) from the i-th name on: the first tag that is
\* there and has a text gives the result
RECURSIVE SafeGetFrom(_, _, _)
SafeGetFrom(doc, names, i) ==
    IF i > Len(names) THEN <<>>
    ELSE LET tag == doc[names[i]] IN
         IF tag.elem /\ tag.text # NoneText THEN Strip(Unescape(tag.text))
         ELSE SafeGetFrom(doc, names, i + 1)

safe_get(doc, names) == SafeGetFrom(doc, names, 1)

\* A Python value that is a str s is written <<s>>, a tuple (a, b) <<a, b>>.
\* RXV.supports_method(source, *args) for such a source: parts[0] of a
\* command is a str, which no tuple equals
PySupportsMethod(source, args) == Len(source) = 1 /\ supports_method(source[1], args)

\* PlayGet.format(src_name=src_name), not wrapped in a zone
PlayGetReq(src_name) == Request("GET", src_name, "Play_Info", GetParam)

\* the PlayStatus that async_get_play_status builds from response res for
\* src_name as line 720 binds it
PlayStatus(res, src_name) ==
    [ playing |-> \/ safe_get(res, <<"Playback_Info">>) = <<"P", "l", "a", "y">>
                  \/ src_name = <<"Tuner">>,
      artist |-> safe_get(res, ARTIST_OPTIONS),
      album |-> safe_get(res, ALBUM_OPTIONS),
      song |-> safe_get(res, SONG_OPTIONS),
      station |-> safe_get(res, STATION_OPTIONS) ]

\* async_get_play_status once _async_get_src_name has returned pair: line 720
\* binds src_name to the whole pair (src_name, cur_input), a tuple of two
\* items, which "not src_name" never finds false and supports_method never
\* finds among the commands
play_status_of_src(t, pair) ==
    LET src_name == pair IN
    IF Len(src_name) = 0 THEN End(t, Returned(None))
    ELSE IF ~PySupportsMethod(src_name, <<"Play_Info">>) THEN End(t, Returned(None))
    ELSE Await(t, "play_info", PlayGetReq(src_name))

\* async_get_play_status(input_source) up to its first await
async_get_play_status(t, input_source) ==
    /\ Enter(t, "async_get_play_status", input_source)
    /\ IF input_source = None
       THEN Await(t, "play_input", InputReq("GET", zone, GetParam))
       ELSE IF devinfo = NoDevice THEN End(t, Raised("AttributeError"))
       ELSE play_status_of_src(t, GetSrcName(zone, input_source))
    /\ UNCHANGED <<coord, store, desc, devinfo, zone, ctrls, zresult, rx, loc>>

\* async_get_play_status(): the current input is known
async_get_play_status_input(t) ==
    /\ Resumed(t, "async_get_play_status", "play_input")
    /\ IF devinfo = NoDevice THEN End(t, Raised("AttributeError"))
       ELSE play_status_of_src(t, GetSrcName(zone, resp[t].val))
    /\ UNCHANGED <<coord, store, desc, devinfo, zone, ctrls, zresult, rx, op, arg, loc, hist>>

\* async_get_play_status after the Play_Info response (lines 731-742).  No
\* behaviour gets here: play_status_of_src never sends the request.
async_get_play_status_done(t) ==
    /\ Resumed(t, "async_get_play_status", "play_info")
    /\ End(t, Returned(PlayStatus(resp[t].val, req[t].top)))
    /\ UNCHANGED <<coord, store, desc, devinfo, zone, ctrls, zresult, rx, op, arg, loc, hist>>

\* the static method RXV.safe_get(doc, names) called on a response
safe_get_call(t, doc, names) ==
    /\ Enter(t, "safe_get", [doc |-> doc, names |-> names])
    /\ End(t, Returned(safe_get(doc, names)))
    /\ UNCHANGED <<coord, store, desc, devinfo, zone, ctrls, zresult, rx, loc>>

PlayTags ==
    {"Artist", "Program_Type", "Album", "Radio_Text_A", "Song", "Track", "Radio_Text_B",
     "Station", "Program_Service", "Playback_Info"}

PlayTexts ==
    {NoElem, Elem(NoneText), Elem(<<" ">>), Elem(<<"A">>), Elem(<<" ", "B", "&amp;", " ">>)}

\* responses that vary the alternatives of the artist and of the song
PlayDocs ==
    {[n \in PlayTags |->
        CASE n = "Artist" -> a
          [] n = "Program_Type" -> b
          [] n = "Song" -> c
          [] n = "Radio_Text_B" -> d
          [] OTHER -> NoElem] :
     a \in PlayTexts, b \in PlayTexts, c \in {NoElem, Elem(NoneText), Elem(<<" ", " ">>)},
     d \in {NoElem, Elem(<<"C">>)}}

\* the inputs a caller asks the play status of: None for the current one
PlayInputs == {None, "SERVER", "TUNER", "HDMI1", "AV1", "PHONO"}

InitPlayStatus ==
    /\ devinfo = DefaultDevice
    /\ zone = "Main_Zone"
    /\ ctrls = <<>>
    /\ zresult = NoZoneResult
    /\ \E i \in {"SERVER", "TUNER", "HDMI1"} :
          rx = [k \in RxKeys |-> IF k = zone THEN RxZone(i, FALSE, FALSE, "Hall") ELSE RxDefault]
    /\ InitHost
    /\ InitTasks

NextPlayStatus ==
    \/ /\ pc[Caller] = "idle"
       /\ \E res \in PlayDocs :
             \E names \in {ARTIST_OPTIONS, ALBUM_OPTIONS, SONG_OPTIONS, STATION_OPTIONS} :
                safe_get_call(Caller, res, names)
    \/ /\ pc[Caller] = "idle"
       /\ \E i \in PlayInputs : async_get_play_status(Caller, i)
    \/ async_get_play_status_input(Caller)
    \/ Receiver(Caller)
    \/ Leave(Caller)

SpecPlayStatus == InitPlayStatus /\ [][NextPlayStatus]_vars

-----------------------------------------------------------------------------
(* Dialogue level *)

\* SoundVideo.format(value='<Dialogue_Adjust><Dialogue_Lvl>...')
DialogueReq(cmd, z, val) == Request(cmd, z, "Sound_Video/Dialogue_Adjust/Dialogue_Lvl", val)

\* the test after which async_get_dialogue_level and
\* async_set_dialogue_level raise CommandUnavailable:
\* "if self.supports_method(self.zone, ...): raise"
DialogueGivesUp(z) ==
    supports_method(z, <<"Sound_Video", "Dialogue_Adjust", "Dialogue_Lvl">>)

\* async_get_dialogue_level() up to its await
async_get_dialogue_level(t) ==
    /\ Enter(t, "async_get_dialogue_level", None)
    /\ IF DialogueGivesUp(zone)
       THEN End(t, Raised("CommandUnavailable"))
       ELSE Await(t, "get_dialogue", DialogueReq("GET", zone, GetParam))
    /\ UNCHANGED <<coord, store, desc, devinfo, zone, ctrls, zresult, rx, loc>>

\* async_get_dialogue_level() after the response: int(level)
async_get_dialogue_level_done(t) ==
    /\ Resumed(t, "async_get_dialogue_level", "get_dialogue")
    /\ LET level == PyIntOfText(resp[t].val) IN
          IF level.kind = "ok" THEN End(t, Returned(level.val))
          ELSE End(t, Raised(level.kind))
    /\ UNCHANGED <<coord, store, desc, devinfo, zone, ctrls, zresult, rx, op, arg, loc, hist>>

\* async_set_dialogue_level(value) for an int value
async_set_dialogue_level(t, value) ==
    /\ Enter(t, "async_set_dialogue_level", value)
    /\ IF DialogueGivesUp(zone)
       THEN End(t, Raised("CommandUnavailable"))
       ELSE IF value \notin {0, 1, 2, 3}
       THEN End(t, Raised("ValueError"))
       ELSE Await(t, "last", DialogueReq("PUT", zone, PyStrInt(value)))
    /\ UNCHANGED <<coord, store, desc, devinfo, zone, ctrls, zresult, rx, loc>>

DialogueValues == {-1, 0, 2, 3, 4}

InitDialogue ==
    /\ devinfo = DefaultDevice
    /\ zone \in {"Main_Zone", "Zone_2", "Zone_3"}
    /\ ctrls = <<>>
    /\ zresult = NoZoneResult
    /\ \E i \in {"HDMI1", "SERVER"} :
          rx = [k \in RxKeys |-> IF k = zone THEN RxZone(i, FALSE, FALSE, "Hall") ELSE RxDefault]
    /\ InitHost
    /\ InitTasks

NextDialogue ==
    \/ async_get_dialogue_level(Caller)
    \/ async_get_dialogue_level_done(Caller)
    \/ \E v \in DialogueValues : async_set_dialogue_level(Caller, v)
    \/ request_done(Caller)
    \/ Receiver(Caller)
    \/ Leave(Caller)

SpecDialogue == InitDialogue /\ [][NextDialogue]_vars

-----------------------------------------------------------------------------
(* Properties of the session operations (specification Spec) *)

\* the receiver's settings of the session's zone when the coroutine was entered
AtEntry(t) == hist[t].rx0[hist[t].zone0]

HasPut(log) == \E i \in 1..Len(log) : log[i].cmd = "PUT"

\* C1: async_set_surround_program(name), name other than Direct, single
\* caller: no Surround program PUT is in flight while the receiver's Direct
\* mode is On, and when Direct mode was On at the call a Direct-Off PUT
\* precedes the Surround PUT in the requests sent and is answered before the
\* Surround PUT is sent.
C1_DirectClearedBeforeProgram ==
    LET t == Caller IN
    op[t] = "async_set_surround_program" =>
        /\ (req[t] # NoReq /\ IsSurroundPut(req[t])) => ~rx[req[t].top].direct
        /\ \A i \in 1..Len(sent[t]) :
              (IsSurroundPut(sent[t][i]) /\ AtEntry(t).direct) =>
                  \E j \in 1..(i - 1) : IsDirectPut(sent[t][j], "Off")
        /\ (req[t] # NoReq /\ IsDirectPut(req[t], "Off")) =>
              \A i \in 1..Len(sent[t]) : ~IsSurroundPut(sent[t][i])

\* C1 witness: Direct mode was On at the call and the Surround PUT is in flight
C1_Witness ==
    /\ op[Caller] = "async_set_surround_program"
    /\ AtEntry(Caller).direct
    /\ arg[Caller] = "Jazz"
    /\ req[Caller] # NoReq
    /\ IsSurroundPut(req[Caller])

\* C2: async_get_surround_program returns Direct when the zone advertises
\* Direct and the receiver reports Direct mode On, whatever Straight and
\* Sound_Program are; otherwise Straight when Straight is On; otherwise the
\* reported Sound_Program.
C2_SurroundPrecedence ==
    LET t == Caller
        s == rx[zone]
        advertised == /\ zone \in DOMAIN devinfo.zone_surround_programs
                      /\ InList(DIRECT, devinfo.zone_surround_programs[zone])
    IN (op[t] = "async_get_surround_program" /\ pc[t] = "done") =>
          result[t] = Returned(IF advertised /\ s.direct THEN DIRECT
                               ELSE IF s.straight THEN STRAIGHT
                               ELSE s.program)

\* C2 witness: Straight is returned although a sound program is reported
C2_Witness ==
    /\ op[Caller] = "async_get_surround_program"
    /\ pc[Caller] = "done"
    /\ result[Caller] = Returned(STRAIGHT)
    /\ rx[zone].program = "Jazz"

\* C2 witness of the first rank: Direct is returned although Straight is On
C2_WitnessDirect ==
    /\ op[Caller] = "async_get_surround_program"
    /\ pc[Caller] = "done"
    /\ result[Caller] = Returned(DIRECT)
    /\ rx[zone].straight

\* the argument of a validated setter is not in the capability set
InvalidArg(t) ==
    \/ op[t] = "async_set_input" /\ arg[t] \notin DOMAIN devinfo.inputs_source
    \/ op[t] = "async_set_scene" /\ arg[t] \notin DOMAIN devinfo.scenes_number
    \/ /\ op[t] = "async_set_surround_program"
       /\ \/ hist[t].zone0 \notin DOMAIN devinfo.zone_surround_programs
          \/ ~InList(arg[t], devinfo.zone_surround_programs[hist[t].zone0])

\* C7: async_set_input, async_set_scene and async_set_surround_program with
\* a value outside the capability set fail before any request is sent: the
\* call has ended with AssertionError, nothing was sent or is in flight, and
\* receiver and session are as they were at the call.
C7_ValidationIsLocal ==
    LET t == Caller IN
    InvalidArg(t) =>
        /\ pc[t] = "done"
        /\ result[t] = Raised("AssertionError")
        /\ sent[t] = <<>>
        /\ req[t] = NoReq
        /\ rx = hist[t].rx0
        /\ zone = hist[t].zone0

\* C7 witness: a program advertised for another zone only is refused
C7_Witness ==
    /\ op[Caller] = "async_set_surround_program"
    /\ arg[Caller] = "Jazz"
    /\ zone = "Zone_2"
    /\ result[Caller] = Raised("AssertionError")

\* the source the input at the call resolves to, None without one
SourceAtEntry(t) ==
    LET i == AtEntry(t).input IN
    IF i \notin DOMAIN devinfo.inputs_source THEN None
    ELSE IF StartsWithHDMI(i) THEN hist[t].zone0
    ELSE devinfo.inputs_source[i]

\* a playback control has ended whose action the source of the current input
\* does not advertise
UnadvertisedPlayback(t) ==
    /\ op[t] = "_async_playback_control"
    /\ pc[t] = "done"
    /\ ~Falsy(SourceAtEntry(t))
    /\ \/ SourceAtEntry(t) \notin DOMAIN devinfo.source_play_methods
       \/ ~InList(arg[t], devinfo.source_play_methods[SourceAtEntry(t)])

\* C8 as stated: such a playback control fails with PlaybackUnavailable
\* without having sent any request.
C8_NoRequestAtAll ==
    UnadvertisedPlayback(Caller) =>
        /\ result[Caller] = Raised("PlaybackUnavailable")
        /\ sent[Caller] = <<>>

\* C8 amended: such a playback control fails with PlaybackUnavailable and the
\* only request of the call is the GET of the current input: no PUT is sent.
C8_NoPutOnlyInputGet ==
    UnadvertisedPlayback(Caller) =>
        /\ result[Caller] = Raised("PlaybackUnavailable")
        /\ sent[Caller] = <<InputReq("GET", hist[Caller].zone0, GetParam)>>
        /\ rx = hist[Caller].rx0

\* C8 witness: Skip Fwd on SERVER, which advertises Play and Stop
C8_Witness ==
    /\ UnadvertisedPlayback(Caller)
    /\ arg[Caller] = "Skip Fwd"
    /\ AtEntry(Caller).input = "SERVER"
    /\ result[Caller] = Raised("PlaybackUnavailable")

\* the three conditions of C9 on the input at the call
CursorAllowed(t) ==
    LET src == SourceAtEntry(t) IN
    /\ ~Falsy(src)
    /\ \E i \in 1..Len(devinfo.commands) :
          devinfo.commands[i] \in {<<src, "List_Control", "Cursor">>,
                                   <<src, "Cursor_Control", "Cursor">>}
    /\ src \in DOMAIN devinfo.source_cursor_actions
    /\ InList(arg[t], devinfo.source_cursor_actions[src])

\* C9: async_set_menu_cursor sends a cursor PUT only when the current input
\* resolves to a source, the source has a List_Control or Cursor_Control
\* cursor command and the action is advertised for it; otherwise it raises
\* MenuUnavailable or MenuActionUnavailable and sends no PUT.
C9_CursorPutOnlyWhenAllowed ==
    LET t == Caller IN
    op[t] = "async_set_menu_cursor" =>
        /\ HasPut(sent[t]) => CursorAllowed(t)
        /\ (pc[t] = "done" /\ ~CursorAllowed(t)) =>
              /\ result[t] \in {Raised("MenuUnavailable"), Raised("MenuActionUnavailable")}
              /\ ~HasPut(sent[t])
        /\ (pc[t] = "done" /\ CursorAllowed(t)) =>
              /\ result[t].kind = "return"
              /\ HasPut(sent[t])

\* C9 witness: the source has the cursor command but not the action
C9_Witness ==
    /\ op[Caller] = "async_set_menu_cursor"
    /\ pc[Caller] = "done"
    /\ arg[Caller] = "Menu"
    /\ AtEntry(Caller).input = "SERVER"
    /\ result[Caller] = Raised("MenuActionUnavailable")

\* C9 witness of the permitted case: the cursor PUT went out through the zone
C9_WitnessPut ==
    /\ op[Caller] = "async_set_menu_cursor"
    /\ pc[Caller] = "done"
    /\ AtEntry(Caller).input = "HDMI1"
    /\ HasPut(sent[Caller])

-----------------------------------------------------------------------------
(* Properties of the session operations against a receiver that may refuse  *)
(* requests (specification SpecRC)                                          *)

\* C15: once a request of an operation is answered with an RC other than
\* "0", the operation sends nothing further and ends with ResponseException
\* and no value; an operation all of whose responses had RC "0" does not end
\* with ResponseException.
C15_NonZeroRcStopsOperation ==
    LET t == Caller IN
    /\ hist[t].failedAt # 0 =>
          /\ Len(sent[t]) = hist[t].failedAt
          /\ req[t] = NoReq
          /\ pc[t] = "done" => result[t] = Raised("ResponseException")
    /\ (pc[t] = "done" /\ hist[t].failedAt = 0) =>
          result[t] # Raised("ResponseException")

\* C15 witness: async_set_surround_program found Direct mode On, its
\* Direct-Off PUT was refused, and it ended without the program PUT
C15_Witness ==
    /\ op[Caller] = "async_set_surround_program"
    /\ pc[Caller] = "done"
    /\ hist[Caller].failedAt = 2
    /\ Len(sent[Caller]) = 2
    /\ IsDirectPut(sent[Caller][2], "Off")
    /\ result[Caller] = Raised("ResponseException")

-----------------------------------------------------------------------------
(* Properties of the menu traversal (specification SpecMenu) *)

\* the select in flight names the first selectable line of the page whose
\* text is the segment of the page's layer, by the digits of its number
SelectIsOfMatchingLine(t) ==
    LET menu == loc[t].menu
        seg == SegmentAt(arg[t], menu.layer)
    IN \E i \in 1..Len(menu.list) :
          /\ menu.list[i].attr # "Unselectable"
          /\ menu.list[i].txt = seg
          /\ \A j \in 1..(i - 1) :
                menu.list[j].attr = "Unselectable" \/ menu.list[j].txt # seg
          /\ req[t].val = LinePrefix \o Digits(menu.list[i].no)

\* what C3 says of a traversal of a path of n segments whose replies have
\* all been cooperative
OnePollAndSelectPerLayer(t, n) ==
    /\ hist[t].polls <= n
    /\ hist[t].selects <= hist[t].polls
    /\ hist[t].polls <= hist[t].selects + 1
    /\ hist[t].nreq <= 1 + 3 * n
    /\ (pc[t] = "select" /\ req[t] # NoReq) => SelectIsOfMatchingLine(t)
    /\ pc[t] = "done" =>
          /\ result[t] = Returned(None)
          /\ hist[t].polls = n
          /\ hist[t].selects = n
          /\ hist[t].nreq = 1 + 3 * n
          /\ hist[t].finalSel

\* C3 as stated: against a cooperative receiver async_set_server(path) polls
\* once per layer, selects once per layer with the number of the matching
\* line, and stops right after the select of the final segment, for a path
\* of any number n of segments.
C3_AnyPathLength ==
    (op[Caller] = "async_set_server" /\ hist[Caller].coop) =>
        OnePollAndSelectPerLayer(Caller, NumSegments(arg[Caller]))

\* C3 amended: the same for a path of at most 20 segments (the number of
\* attempts of the loop).
C3_PathWithinAttempts ==
    (/\ op[Caller] = "async_set_server"
     /\ hist[Caller].coop
     /\ NumSegments(arg[Caller]) <= MaxAttempts) =>
        OnePollAndSelectPerLayer(Caller, NumSegments(arg[Caller]))

\* C3 witness: a cooperative traversal of a > b > a has ended
C3_Witness ==
    /\ op[Caller] = "async_set_server"
    /\ pc[Caller] = "done"
    /\ hist[Caller].coop
    /\ arg[Caller] = AltPath(3)
    /\ hist[Caller].selects = 3

\* C4: a traversal that has used all 20 attempts without selecting the final
\* segment ends with an exception.
C4_ExhaustionIsAFailure ==
    (/\ op[Caller] = "async_set_server"
     /\ pc[Caller] = "done"
     /\ hist[Caller].polls = MaxAttempts
     /\ ~hist[Caller].finalSel) =>
        result[Caller].kind = "raise"

\* C5: async_set_server makes at most 20 polls and at most 20 selects
\* whatever the receiver replies, and against a receiver that was never ready
\* it ends after exactly 20 polls without a select.
C5_BoundedTraversal ==
    LET t == Caller IN
    op[t] = "async_set_server" =>
        /\ hist[t].polls <= MaxAttempts
        /\ hist[t].selects <= MaxAttempts
        /\ hist[t].nreq <= 1 + 3 * MaxAttempts
        /\ (pc[t] = "done" /\ ~hist[t].everReady) =>
              /\ hist[t].polls = MaxAttempts
              /\ hist[t].selects = 0
              /\ result[t] = Returned(None)

\* C5 witness: the traversal has ended against a receiver that was never ready
C5_Witness ==
    /\ op[Caller] = "async_set_server"
    /\ pc[Caller] = "done"
    /\ ~hist[Caller].everReady
    /\ hist[Caller].polls = MaxAttempts

\* C5 witness of the other extreme: 20 selects were made
C5_WitnessSelects ==
    /\ op[Caller] = "async_set_server"
    /\ pc[Caller] = "done"
    /\ hist[Caller].selects = MaxAttempts

\* C6: async_set_net_radio, once the input is switched, resets the menu and
\* enters the polling loop: it does not end before its first poll.
C6_ResetThenPoll ==
    (/\ op[Caller] = "async_set_net_radio"
     /\ pc[Caller] = "done"
     /\ hist[Caller].nreq >= 1) =>
        hist[Caller].polls >= 1

-----------------------------------------------------------------------------
(* Properties of the zone controllers (specification SpecZones) *)

\* C10: zone_controllers() on a set-up session returns one controller per
\* zone of the capability set, in its order, the i-th reading back the i-th
\* zone name, and leaves the session's own zone selection as it was.
C10_OneControllerPerZone ==
    (zresult.op = "zone_controllers" /\ devinfo # NoDevice) =>
        /\ zresult.kind = "return"
        /\ Len(ctrls) = Len(devinfo.zones)
        /\ \A i \in 1..Len(ctrls) : ctrls[i].zone = devinfo.zones[i]
        /\ zone = zresult.zone0

\* C10 witness: three controllers in the receiver's (reversed) order, made
\* from a session whose own zone is none of the first two
C10_Witness ==
    /\ zresult.op = "zone_controllers"
    /\ devinfo # NoDevice
    /\ Len(ctrls) = 3
    /\ ctrls[1].zone = "Zone_3"
    /\ zone = "Main_Zone"

-----------------------------------------------------------------------------
(* Properties of the sessions of one receiver (specification SpecSessions) *)

\* C11: a session never addresses a zone outside the capability set: the
\* zone of a session constructed and set up, and of every controller, is a
\* zone of the capability set; a refused zone change leaves the selection as
\* it was; every zone command in flight is wrapped in a zone of the
\* capability set.
C11_OnlyCapabilityZones ==
    /\ InList(zone, devinfo.zones)
    /\ \A i \in 1..Len(ctrls) : InList(ctrls[i].zone, devinfo.zones)
    /\ (zresult.op = "zone" /\ zresult.kind = "raise") =>
          ZoneOf(zresult.who) = zresult.zone0
    /\ \A t \in Tasks : req[t] # NoReq => InList(req[t].top, devinfo.zones)

\* C12: a zone change on one session changes the zone selection of no other
\* session (controllers and originating session); zone_controllers() and the
\* steps of a coroutine change no existing selection; every zone command a
\* session sends is wrapped in the zone that session has when it sends it.
C12_ZoneIsolation ==
    [][ /\ zresult'.op = "zone" =>
              /\ Len(ctrls') = Len(ctrls)
              /\ \A k \in 0..Len(ctrls) :
                    k # zresult'.who =>
                        (IF k = 0 THEN zone' ELSE ctrls'[k].zone) = ZoneOf(k)
        /\ zresult'.op = "zone_controllers" => zone' = zone
        /\ \A t \in Tasks :
              /\ pc'[t] # pc[t] => (zone' = zone /\ ctrls' = ctrls)
              /\ (req'[t] # req[t] /\ req'[t] # NoReq) =>
                    req'[t].top = ZoneOf(loc'[t].who)
      ]_vars

\* C12 witness: the second controller was moved to Zone_3 and then sent a
\* request wrapped in Zone_3, while the first controller and the originating
\* session are on Main_Zone
C12_Witness ==
    /\ Len(ctrls) = 3
    /\ zresult.op = "zone"
    /\ zresult.who = 2
    /\ zresult.kind = "return"
    /\ zresult.zone0 = "Zone_2"
    /\ ctrls[1].zone = "Main_Zone"
    /\ ctrls[2].zone = "Zone_3"
    /\ zone = "Main_Zone"
    /\ req[Caller] # NoReq
    /\ loc[Caller].who = 2
    /\ req[Caller].top = "Zone_3"

-----------------------------------------------------------------------------
(* Properties of the volume (specification SpecVolume) *)

Abs(n) == IF n < 0 THEN -n ELSE n

\* the number that the text of a Val reads as
ValOfText(text) == IF text[1] = "-" THEN -NatOfDigits(Tail(text)) ELSE NatOfDigits(text)

\* C13: the Val that async_set_volume(value) transmits is int(value*2)*5 with
\* truncation toward zero: a multiple of 5 of the sign of value, of magnitude
\* at most that of value*10 and less than 5 below it.  (v is value*100.)
C13_ValIsTruncatedHalfStep ==
    LET t == Caller
        v == arg[t]
    IN (op[t] = "async_set_volume" /\ sent[t] # <<>>) =>
          LET r == sent[t][1]
              val == ValOfText(r.val.val)
          IN /\ Len(sent[t]) = 1
             /\ r.cmd = "PUT" /\ r.path = "Volume/Lvl" /\ r.top = zone
             /\ val % 5 = 0
             /\ val * v >= 0
             /\ Abs(val) * 10 <= Abs(v)
             /\ Abs(v) - Abs(val) * 10 < 50

\* C13 witness: -51.8 dB is transmitted as -515
C13_Witness ==
    /\ op[Caller] = "async_set_volume"
    /\ arg[Caller] = -5180
    /\ req[Caller] # NoReq
    /\ req[Caller].val.val = <<"-", "5", "1", "5">>

\* round(x) of the quotient x = num/den, den > 0: to the nearest integer, a
\* tie to the even one
PyRound(num, den) ==
    LET q == num \div den
        r == num - q * den
    IN IF 2 * r < den THEN q
       ELSE IF 2 * r > den THEN q + 1
       ELSE IF q % 2 = 0 THEN q ELSE q + 1

\* C14: async_get_volume() after async_set_volume(V) on a receiver that
\* stores the transmitted Val returns a volume within 0.5 dB of round(V*2)/2.
C14_VolumeRoundTrip ==
    (/\ op[Caller] = "async_set_volume" /\ pc[Caller] = "done"
     /\ op[Reader] = "async_get_volume" /\ pc[Reader] = "done") =>
        /\ result[Reader].kind = "return"
        /\ Abs(result[Reader].val - PyRound(arg[Caller] * 2, 100) * 50) <= 50

\* C14 witness: -51.8 dB reads back as -51.5 dB, half a dB from round(-103.6)/2
C14_Witness ==
    /\ op[Caller] = "async_set_volume" /\ pc[Caller] = "done"
    /\ arg[Caller] = -5180
    /\ op[Reader] = "async_get_volume" /\ pc[Reader] = "done"
    /\ result[Reader] = Returned(-5150)

-----------------------------------------------------------------------------
(* Properties of the coordinator (specification SpecCoordinator) *)

\* a poll cycle has ended
CycleEnded(t) == op[t] = "_async_update_data" /\ pc[t] = "done"

\* C16: a poll cycle in which a step raised ends with UpdateFailed, produces
\* no snapshot and leaves the published snapshot as it was; and a cycle after
\* a failed one still runs and succeeds when the receiver answers all its
\* requests.
C16_FailedCycleIsContained ==
    LET t == Caller IN
    /\ (CycleEnded(t) /\ hist[t].failedAt # 0) => result[t] = Raised("UpdateFailed")
    /\ (CycleEnded(t) /\ result[t].kind = "raise") => result[t] = Raised("UpdateFailed")
    /\ ~coord.ok => coord.data = None
    /\ (CycleEnded(t) /\ ~coord.ok /\ hist[t].failedAt = 0) => result[t].kind = "return"

\* C17: a poll cycle whose requests the receiver all answered produces a
\* snapshot with the power, mute and input of the BasicStatus of that cycle
\* and its volume normalised into [0, 1] over -80..+15 dB.
C17_SnapshotOfAnsweredCycle ==
    LET t == Caller
        s == rx[zone]
        v == ValOfText(s.volume) * 10
    IN (CycleEnded(t) /\ hist[t].failedAt = 0) =>
          /\ result[t].kind = "return"
          /\ result[t].val.is_on = (s.power = "On")
          /\ result[t].val.muted = (s.mute = "On")
          /\ result[t].val.current_source = s.input
          /\ result[t].val.volume =
                IF v < -8000 THEN <<0, 9500>>
                ELSE IF v > 1500 THEN <<9500, 9500>>
                ELSE <<v + 8000, 9500>>


-----------------------------------------------------------------------------
(* Properties of async_setup (specification SpecSetup) *)

\* the fields of RXVDeviceinfo
DeviceFields ==
    {"device_id", "friendly_name", "manufacturer", "model_name", "serial_number",
     "icons", "zones", "commands", "zone_surround_programs", "source_play_methods",
     "source_cursor_actions", "inputs_source", "scenes_number"}

SetupEnded(t) == op[t] = "async_setup" /\ pc[t] = "done"

\* C18: when async_setup ends with an exception, the session's device record
\* is unset and the store holds what it held when async_setup was called;
\* the device record is never anything but unset or a record with every
\* field, and the store is written only by a setup that returns, with the
\* record the session then has.
C18_FailedSetupLeavesNothing ==
    /\ devinfo = NoDevice \/ DOMAIN devinfo = DeviceFields
    /\ store.saved = NoDevice \/ DOMAIN store.saved = DeviceFields
    /\ \A t \in Tasks :
          /\ (SetupEnded(t) /\ result[t].kind = "raise") =>
                /\ devinfo = NoDevice
                /\ store.saved = hist[t].saved0
          /\ (SetupEnded(t) /\ store.saved # hist[t].saved0) =>
                /\ result[t] = Returned(None)
                /\ store.saved = devinfo

\* a setup with a store failed at its last request, the one of the scenes
C18_Witness ==
    /\ SetupEnded(Caller)
    /\ result[Caller] = Raised("ResponseException")
    /\ Len(sent[Caller]) = 4
    /\ store.handle
    /\ devinfo = NoDevice
    /\ store.saved = NoDevice

\* the device descriptor parses and lacks the device node or the UDN node
LacksDeviceOrUdn(doc) ==
    IF doc.kind # "ok" THEN FALSE ELSE ~doc.device \/ ~doc.udn.elem

\* the discovery of the setup of t has fetched the device descriptor
Discovered(t) == SetupEnded(t) /\ Len(sent[t]) >= 1

\* C19: a discovery on a device descriptor that lacks the device node or the
\* UDN node ends with DescException, the exception of an empty descriptor.
C19_MissingNodeRaisesDescException ==
    \A t \in Tasks :
        /\ (Discovered(t) /\ LacksDeviceOrUdn(desc.device)) =>
              result[t] = Raised("DescException")
        /\ (Discovered(t) /\ desc.device = EmptyDoc) =>
              result[t] = Raised("DescException")

\* the device descriptor parses and has the device node with every node
\* _async_discover_device_info reads the text of
CompleteDoc(doc) ==
    IF doc.kind # "ok" THEN FALSE
    ELSE /\ doc.device
         /\ \A n \in {"udn", "manufacturer", "modelName", "friendlyName", "serialNumber"} :
               doc[n].elem

\* the declared width of an icon: the number its width element holds, 0 when
\* the element is missing or holds no number
DeclaredWidth(icon) ==
    IF /\ icon.width.elem
       /\ icon.width.text # NoneText
       /\ \A i \in 1..Len(icon.width.text) : IsDigitChar(icon.width.text[i])
    THEN NatOfDigits(icon.width.text)
    ELSE 0

\* urls is the list of the urls of the icons that have a url element, by
\* descending declared width, those of equal width in document order
IconOrder(icons, urls) ==
    LET with_url == {i \in 1..Len(icons) : icons[i].url.elem} IN
    /\ Len(urls) = Cardinality(with_url)
    /\ \A i \in with_url : \E j \in 1..Len(urls) : urls[j] = icons[i].url.text
    /\ \A j, k \in 1..Len(urls) :
          j < k =>
             \E a, b \in with_url :
                /\ urls[j] = icons[a].url.text
                /\ urls[k] = icons[b].url.text
                /\ \/ DeclaredWidth(icons[a]) > DeclaredWidth(icons[b])
                   \/ DeclaredWidth(icons[a]) = DeclaredWidth(icons[b]) /\ a < b

\* C20: the discovery on a complete device descriptor gets past the icon
\* list, and the list it holds has the url of every icon with a url element
\* by descending declared width (0 for a missing or non-numeric width),
\* equal widths in document order.
C20_IconsByDescendingWidth ==
    \A t \in Tasks :
        (op[t] = "async_setup" /\ pc[t] # "idle" /\ CompleteDoc(desc.device)) =>
            /\ ~(pc[t] = "done" /\ Len(sent[t]) = 1)
            /\ Len(sent[t]) >= 2 => IconOrder(desc.device.icons, loc[t].d.icons)

-----------------------------------------------------------------------------
(* Properties of two tasks on one session (specifications                   *)
(* SpecCoordinatorTasks and SpecConcurrent)                                 *)

\* the requests of the session that the receiver has not answered yet
InFlight == {t \in Tasks : req[t] # NoReq}

\* C21: at any moment at most one request of the session is in flight to
\* the receiver, whichever commands and poll cycles of the coordinator are
\* active.
C21_OneRequestInFlight == Cardinality(InFlight) <= 1

\* the receiver answers the request of t in this step, a PUT of a surround
\* program (Straight or a named program)
ProgramPutArrives(t) ==
    IF req[t] = NoReq \/ req'[t] # NoReq THEN FALSE
    ELSE /\ req[t].cmd = "PUT"
         /\ req[t].path \in {"Surround/Program_Sel/Current/Straight",
                             "Surround/Program_Sel/Current/Sound_Program"}

\* C30: with one task setting a named program and the other setting Direct,
\* no PUT of a surround program reaches the receiver while the Direct mode
\* of its zone is On.
C30_NoProgramPutUnderDirect ==
    [][\A t \in Tasks : ProgramPutArrives(t) => ~rx[req[t].top].direct]_vars

-----------------------------------------------------------------------------
(* Properties of repeated async_setup (specification SpecSetup) *)

\* async_setup of t has returned
SetupReturned(t) == SetupEnded(t) /\ result[t] = Returned(None)

\* C22 (as stated): the device descriptor is fetched at most once in the
\* life of a session.
C22_DiscoveryAtMostOnce == desc.hits <= 1

\* C22 (amended): a discovery starts only while the session has no record
\* and its store, if it has made one, holds none; once the session has its
\* record and has saved it, no async_setup fetches a descriptor or writes
\* the store; the store is written at most once, with the discovered
\* record; a setup that finds a record in the store returns it without
\* sending anything and without a write; a setup that returns on a session
\* with an entry id leaves the session's record in the store.
C22_DiscoverOnceUnlessFailed ==
    [][ /\ desc'.hits # desc.hits =>
              /\ devinfo = NoDevice
              /\ store.handle => store.saved = NoDevice
        /\ store'.writes # store.writes =>
              /\ store.writes = 0
              /\ store.saved = NoDevice
              /\ store'.saved = devinfo'
              /\ devinfo' # NoDevice
        /\ (devinfo # NoDevice /\ pc[Caller] # "store_save") =>
              /\ desc'.hits = desc.hits
              /\ store'.saved = store.saved
              /\ store'.writes = store.writes
              /\ devinfo' = devinfo
              /\ sent'[Caller] \in {sent[Caller], <<>>}
        /\ (SetupReturned(Caller)' /\ ~SetupReturned(Caller)) =>
              /\ devinfo' # NoDevice
              /\ store'.entry_id # None => store'.saved = devinfo'
              /\ (store.entry_id # None /\ hist[Caller].saved0 # NoDevice) =>
                    /\ devinfo' = hist[Caller].saved0
                    /\ sent'[Caller] = <<>>
                    /\ store'.writes = 0
      ]_vars

\* a setup discovered and saved the record, and a further async_setup on the
\* session has returned without sending anything
C22_Witness ==
    /\ SetupReturned(Caller)
    /\ sent[Caller] = <<>>
    /\ desc.hits = 1
    /\ store.writes = 1
    /\ store.saved = devinfo

-----------------------------------------------------------------------------
(* Properties of the operations of a set-up session (specification SpecOps) *)

\* C23: no operation of a set-up session changes the device record, and
\* every controller zone_controllers() returned holds the reference to the
\* record that the originating session holds.
C23_RecordIsReadOnly ==
    [][ /\ devinfo' = devinfo
        /\ \A i \in 1..Len(ctrls') : ctrls'[i].device = Self.device
      ]_vars

\* controllers exist, one of them has had its zone changed, and a command
\* of the session has returned
C23_Witness ==
    /\ Len(ctrls) = 3
    /\ ctrls[1].zone = "Zone_2"
    /\ pc[Caller] = "done"
    /\ op[Caller] = "async_set_scene"
    /\ result[Caller] = Returned(None)
    /\ zone = "Zone_2"
    /\ devinfo = DefaultDevice

-----------------------------------------------------------------------------
(* Properties of the playback control (specification Spec) *)

\* a playback control of t has ended
PlaybackEnded(t) == op[t] = "_async_playback_control" /\ pc[t] = "done"

\* action is in the advertised playback-method set of the source that input
\* cur_input resolves to in zone z
Advertised(z, cur_input, action) ==
    LET src == GetSrcName(z, cur_input)[1] IN
    /\ cur_input \in DOMAIN devinfo.inputs_source
    /\ ~Falsy(src)
    /\ InList(action, DictGet(devinfo.source_play_methods, src, <<>>))

\* the call of t has sent a Play_Control PUT that carries action
SentPlayControl(t, action) ==
    \E i \in 1..Len(sent[t]) :
        /\ sent[t][i].cmd = "PUT"
        /\ sent[t][i].path = "Play_Control/Playback"
        /\ sent[t][i].val = action

\* C24: a playback control with action A sends a Play_Control PUT carrying A
\* exactly when the current input is in the input mapping and A is in the
\* advertised playback-method set of the source the input resolves to.
C24_PlayControlExactlyWhenAdvertised ==
    \A t \in Tasks :
        PlaybackEnded(t) =>
            (SentPlayControl(t, arg[t]) <=>
                Advertised(hist[t].zone0, hist[t].rx0[hist[t].zone0].input, arg[t]))

-----------------------------------------------------------------------------
(* Properties of the source resolution (specification SpecSrc) *)

\* the labels of the model that start with "HDMI" in any case
HdmiLabels == {"HDMI1", "HDMI2", "hdmi3", "Hdmi4"}

\* a source resolution of t has returned
SrcResolved(t) == op[t] = "_async_get_src_name" /\ pc[t] = "done"

\* the input the resolution of t is about: the one given, else the current
\* input of the zone
SrcInput(t) == IF arg[t] # None THEN arg[t] ELSE hist[t].rx0[zone].input

\* C25: the resolved source is the session's zone for a mapped input whose
\* label starts with "HDMI" in any case, the mapped source name for any
\* other mapped input, and none for an input that is not in the mapping,
\* also when its label starts with "HDMI".
C25_SourceResolution ==
    \A t \in Tasks :
        SrcResolved(t) =>
            /\ result[t].kind = "return"
            /\ result[t].val[1] =
                  IF SrcInput(t) \notin DOMAIN devinfo.inputs_source THEN None
                  ELSE IF SrcInput(t) \in HdmiLabels THEN zone
                  ELSE devinfo.inputs_source[SrcInput(t)]

\* a mapped lower-case HDMI input, read from the receiver, resolves to the
\* zone although the mapping gives it a source name
C25_Witness ==
    /\ SrcResolved(Caller)
    /\ arg[Caller] = None
    /\ SrcInput(Caller) = "hdmi3"
    /\ "hdmi3" \in DOMAIN devinfo.inputs_source
    /\ result[Caller].val[1] = "Zone_2"

\* an HDMI input that is not in the mapping resolves to no source
C25_WitnessUnmapped ==
    /\ SrcResolved(Caller)
    /\ SrcInput(Caller) = "HDMI1"
    /\ "HDMI1" \notin DOMAIN devinfo.inputs_source
    /\ result[Caller].val[1] = None

-----------------------------------------------------------------------------
(* Properties of the play status fields (specification SpecPlayStatus) *)

\* the value of tag name in res, the empty text when the tag is missing,
\* has no text or only blanks
TagValue(res, name) ==
    IF res[name].elem /\ res[name].text # NoneText
    THEN Strip(Unescape(res[name].text))
    ELSE <<>>

\* the value of the first name of names whose value is not empty, else the
\* empty text
FirstNonEmpty(res, names) ==
    IF \A i \in 1..Len(names) : TagValue(res, names[i]) = <<>> THEN <<>>
    ELSE LET first == CHOOSE i \in 1..Len(names) :
                          /\ TagValue(res, names[i]) # <<>>
                          /\ \A j \in 1..(i - 1) : TagValue(res, names[j]) = <<>>
         IN TagValue(res, names[first])

\* C26: each text field of PlayStatus, which safe_get reads with the field's
\* list of alternative tags, is the value of the first alternative whose
\* value is not empty; an empty or blank alternative does not mask a later
\* one.
C26_FirstNonEmptyWins ==
    \A t \in Tasks :
        (op[t] = "safe_get" /\ pc[t] = "done") =>
            result[t].val = FirstNonEmpty(arg[t].doc, arg[t].names)

-----------------------------------------------------------------------------
(* Properties of the surround programs of a zone without a Setup menu       *)
(* (specification SpecPrograms)                                             *)

\* the unit descriptor lists zone z and gives it no Setup menu
NoSetupMenu(z) ==
    \E i \in 1..Len(Subunits) : Subunits[i].tag = z /\ ~Subunits[i].setup

\* C27: on a set-up session of a zone without a surround Setup menu,
\* get_surround_programs() returns an empty collection, not None and not an
\* error, so that iterating over it sees no program.
C27_NoSetupMenuGivesEmptyList ==
    [][ ( /\ devinfo # NoDevice
          /\ NoSetupMenu(zone)
          /\ zresult'.op = "get_surround_programs"
          /\ zresult'.op # zresult.op \/ zresult'.kind # zresult.kind ) =>
            /\ zresult'.kind = "return"
            /\ zresult'.val = PyList(<<>>)
      ]_vars

-----------------------------------------------------------------------------
(* Properties of the dialogue level (specification SpecDialogue) *)

\* the command list of the device has the Dialogue_Lvl command of zone z
HasDialogueCommand(z) ==
    \E i \in 1..Len(devinfo.commands) :
        devinfo.commands[i] = <<z, "Sound_Video", "Dialogue_Adjust", "Dialogue_Lvl">>

\* a dialogue-level call of t has ended or is waiting for its answer
DialogueCall(t) ==
    /\ op[t] \in {"async_get_dialogue_level", "async_set_dialogue_level"}
    /\ pc[t] # "idle"

\* the call of t ended with CommandUnavailable
DialogueUnavailable(t) ==
    /\ pc[t] = "done"
    /\ result[t].kind = "raise"
    /\ result[t].val = "CommandUnavailable"

\* C28: the dialogue-level methods raise CommandUnavailable exactly when the
\* zone's command list lacks the Dialogue_Lvl command; on a zone that has it
\* they send their request, the set only for a value in 0..3 and otherwise
\* ending with ValueError and nothing sent.
C28_UnavailableExactlyWhenLacking ==
    \A t \in Tasks :
        DialogueCall(t) =>
            /\ DialogueUnavailable(t) <=> ~HasDialogueCommand(zone)
            /\ HasDialogueCommand(zone) =>
                  IF op[t] = "async_set_dialogue_level" /\ arg[t] \notin 0..3
                  THEN /\ pc[t] = "done"
                       /\ result[t].kind = "raise"
                       /\ result[t].val = "ValueError"
                       /\ sent[t] = <<>>
                  ELSE Len(sent[t]) = 1

-----------------------------------------------------------------------------
(* Properties of the layers of a menu traversal (specification SpecMenu) *)

\* the traversal of t ended with an out-of-range access
TraversalIndexError(t) ==
    /\ pc[t] = "done"
    /\ result[t].kind = "raise"
    /\ result[t].val = "IndexError"

\* the traversal of t has just selected a line of the menu it was shown
SelectedAtMenu(t) == op[t] = "async_set_server" /\ pc[t] = "select"

\* the menu has a selectable line whose text is the path segment of the
\* menu's own layer
MatchesOwnSegment(menu, layers) ==
    /\ menu.layer \in 1..Len(layers)
    /\ \E i \in 1..Len(menu.list) :
          /\ menu.list[i].attr # "Unselectable"
          /\ menu.list[i].txt = layers[menu.layer]

\* C29: for every layer the device reports while ready (layer 0 and layers
\* deeper than the path included) the traversal never ends with an
\* out-of-range access, and it selects a line only when the line's text is
\* the segment of the reported layer; a layer without a segment gives no
\* match.
C29_LayerWithoutSegmentIsNoMatch ==
    \A t \in Tasks :
        /\ op[t] = "async_set_server" => ~TraversalIndexError(t)
        /\ SelectedAtMenu(t) => MatchesOwnSegment(loc[t].menu, loc[t].layers)

=============================================================================
